---- MODULE Spec2Model ----
(***************************************************************************)
(* A model of the range splitter, of the full-range fetch-merge engine in  *)
(* its parallel and its sequential mode, and of the pagination walker of   *)
(* polygon/base_client.py.                                                 *)
(*                                                                         *)
(* Time.  The model's clock ticks in whole minutes: a timestamp n stands   *)
(* for the epoch timestamp n * 60000 ms of the program, a timedelta for a  *)
(* number of minutes.  Every quantity the splitter compares (00:00 and     *)
(* 23:59 of a day, one hour, whole days) is a whole number of minutes.     *)
(*                                                                         *)
(* Values.  A temporal value of the program is a record                    *)
(*   [kind, v, aware, off]                                                 *)
(*   kind = "date"     a datetime.date, v = days since the epoch           *)
(*   kind = "str"      a 'YYYY-MM-DD' string, v = days since the epoch     *)
(*   kind = "datetime" a datetime.datetime, v = wall-clock minutes since   *)
(*                     the epoch, aware = has a tzinfo, off = utcoffset    *)
(*   kind = "int"      an epoch timestamp, v = the timestamp               *)
(*   kind = "None"     Python's None                                       *)
(***************************************************************************)
EXTENDS Integers, Sequences, FiniteSets, TLC

VARIABLES
    pc,             \* where the caller is: "idle", after a split, or after a fetch ("done")
    split,          \* the last split_date_range call: its arguments and result
    sort_order,     \* get_full_range_aggregates: sort_order
    futures,        \* get_full_range_aggregates: the futures, in submission order
    idx,            \* the position the loop over reversed(futures) ended at
    final_results,  \* get_full_range_aggregates: final_results
    dupe_handler,   \* get_full_range_aggregates: dupe_handler
    log,            \* the INFO / WARN lines printed by the call
    ret,            \* how the call ended and what it returned
    walk,           \* the last get_all_pages or _paginate call: its arguments and result
    seq,            \* a call with run_parallel = False: its arguments, locals and requests
    norm,           \* the last normalize_datetime call: its arguments and result
    opt,            \* the last TD Ameritrade symbol built and parsed back
    pool,           \* a call with run_parallel = True, fetch by fetch: the worker pool
    upstream        \* a call over a range against an upstream that holds records

vars == <<pc, split, sort_order, futures, idx, final_results, dupe_handler, log, ret, walk, seq, norm, opt, pool, upstream>>

(***************************************************************************)
(* Bounds of the model.                                                    *)
(***************************************************************************)
\* The splitter's loop is followed for at most MaxIter iterations.
MaxIter == 40
\* A time_chunks list holds at most MaxWindows windows.
MaxWindows == 2
\* Candle timestamps range over 0 .. MaxT.
MaxT == 3
\* A page chain holds at most MaxPages pages, the initial page included.
MaxPages == 3
\* The pagination loop is followed for at most MaxFetches calls of the
\* function that follows a cursor.
MaxFetches == 6
\* The upstream of a call over a range holds at most MaxRecords records.
MaxRecords == 4
\* The sequential loop over a range is followed for at most MaxRequests requests.
MaxRequests == 8

MinutesPerDay == 24 * 60

(***************************************************************************)
(* Temporal values.                                                        *)
(***************************************************************************)
Date(d) == [kind |-> "date", v |-> d, aware |-> FALSE, off |-> 0]
Str(d) == [kind |-> "str", v |-> d, aware |-> FALSE, off |-> 0]
Naive(m) == [kind |-> "datetime", v |-> m, aware |-> FALSE, off |-> 0]
Aware(m, o) == [kind |-> "datetime", v |-> m, aware |-> TRUE, off |-> o]
Ts(n) == [kind |-> "int", v |-> n, aware |-> FALSE, off |-> 0]
None == [kind |-> "None", v |-> 0, aware |-> FALSE, off |-> 0]

\* timedelta.days: the whole days of a duration, rounded towards minus infinity
Days(td) == td \div MinutesPerDay

\* datetime.timestamp() of an aware datetime, in the model's unit
Timestamp(dt) == dt.v - dt.off

\* datetime.date(): the calendar day of the wall clock
DayOf(m) == m \div MinutesPerDay

TIME_FRAME_CHUNKS ==
    [second  |-> 60,
     minute  |-> 45 * MinutesPerDay,
     min     |-> 45 * MinutesPerDay,
     hour    |-> 60 * MinutesPerDay,
     day     |-> 3500 * MinutesPerDay,
     week    |-> 3500 * MinutesPerDay,
     month   |-> 3500 * MinutesPerDay,
     quarter |-> 3500 * MinutesPerDay,
     year    |-> 3500 * MinutesPerDay]

(***************************************************************************)
(* Base.normalize_datetime(dt, output_type, _dir, tz) with the default     *)
(* _format '%Y-%m-%d'.  tz is the utcoffset, in minutes, of the timezone   *)
(* passed (0 for None, which the code replaces by UTC).                    *)
(***************************************************************************)
\* an end of day at the midnight that follows it
EndOfDayMidnight == 24 * 60

\* line 139: datetime(dt.year, dt.month, dt.day, 23, 59), as minutes after 00:00
EndOfDay == 23 * 60 + 59

normalize_datetime(dt, output_type, _dir, tz) ==
    LET \* line 124: a naive datetime is given the timezone, an aware one is kept
        adt == IF dt.aware THEN dt ELSE Aware(dt.v, tz)
        \* line 134: a string is parsed to a date
        d == IF dt.kind = "str" THEN Date(dt.v) ELSE dt
        \* line 152: utcfromtimestamp(dt / factor).replace(tzinfo=tz)
        udt == Aware(dt.v, tz)
        \* lines 136-146, which a datetime of another output_type falls into too
        OfDate(day) ==
            CASE output_type = "ts" /\ _dir = "start" ->
                     Ts(Timestamp(Aware(day * MinutesPerDay, tz)))
              [] output_type = "ts" /\ _dir = "end" ->
                     Ts(Timestamp(Aware(day * MinutesPerDay + EndOfDay, tz)))
              [] output_type = "ts" -> None
              [] output_type \in {"str", "nts"} -> Str(day)
              [] output_type = "datetime" -> Aware(day * MinutesPerDay, tz)
              [] output_type = "date" -> Date(day)
              [] OTHER -> None
    IN  CASE dt.kind = "datetime" ->
                 (CASE output_type = "date" -> Date(DayOf(dt.v))
                    [] output_type = "datetime" -> adt
                    [] output_type \in {"ts", "nts"} -> Ts(Timestamp(adt))
                    [] output_type = "str" -> Str(DayOf(adt.v))
                    [] OTHER -> None)
          [] d.kind = "date" -> OfDate(d.v)
          [] dt.kind = "int" ->
                 (CASE output_type \in {"ts", "nts"} -> dt
                    [] output_type = "str" -> Str(DayOf(udt.v))
                    [] output_type = "datetime" -> udt
                    [] output_type = "date" -> Date(DayOf(udt.v))
                    [] OTHER -> None)
          [] OTHER -> None

(***************************************************************************)
(* Base.split_date_range                                                   *)
(***************************************************************************)
Reverse(s) == [i \in 1..Len(s) |-> s[Len(s) + 1 - i]]

\* a volatility discount added to the chunk instead of taken from it
ChunkDeltaGrown(timespan, high_volatility) ==
    LET key == IF timespan = "min" THEN "minute" ELSE timespan
        delta == TIME_FRAME_CHUNKS[key]
    IN  IF high_volatility
        THEN IF key \in {"minute", "hour"}
             THEN (Days(delta) + 20) * MinutesPerDay
             ELSE (Days(delta) + 1500) * MinutesPerDay
        ELSE delta

\* lines 50-66: the chunk duration of a timespan of the table
ChunkDelta(timespan, high_volatility) ==
    LET key == IF timespan = "min" THEN "minute" ELSE timespan
        delta == TIME_FRAME_CHUNKS[key]
    IN  IF high_volatility
        THEN IF key \in {"minute", "hour"}
             THEN (Days(delta) - 20) * MinutesPerDay
             ELSE (Days(delta) - 1500) * MinutesPerDay
        ELSE delta

\* lines 53-60: the lookup of the timespan raises KeyError for an absent key
KnownTimespan(timespan) ==
    (IF timespan = "min" THEN "minute" ELSE timespan) \in DOMAIN TIME_FRAME_CHUNKS

\* datetime + timedelta
Plus(dt, td) == [dt EXCEPT !.v = dt.v + td]

\* datetime.min, 0001-01-01 00:00, is 719162 days before the epoch: a sum
\* below it raises OverflowError.  (datetime.max, in the year 9999, is beyond
\* every range the model splits.)
MinDatetime == (0 - 719162) * MinutesPerDay
Overflows(dt) == dt.v < MinDatetime

\* line 72: the range is shorter than one chunk
FitsOneChunkInclusive(span, delta) == Days(span) <= Days(delta)

FitsOneChunk(span, delta) == Days(span) < Days(delta)

\* the loop without the clipping of the last chunk at end (line 84)
RECURSIVE SplitLoopNoClip(_, _, _, _, _)
SplitLoopNoClip(current, end, delta, final_time_chunks, fuel) ==
    LET probable_next_date == Plus(current, delta)
    IN  IF fuel = 0
        THEN [status |-> "running", chunks |-> final_time_chunks]
        ELSE IF Overflows(probable_next_date)
        THEN [status |-> "OverflowError", chunks |-> <<>>]
        ELSE IF Timestamp(probable_next_date) >= Timestamp(end)
        THEN IF Timestamp(current) = Timestamp(probable_next_date)
             THEN [status |-> "ok", chunks |-> final_time_chunks]
             ELSE [status |-> "ok",
                   chunks |-> Append(final_time_chunks,
                                     <<current, probable_next_date>>)]
        ELSE SplitLoopNoClip(probable_next_date, end, delta,
                             Append(final_time_chunks, <<current, probable_next_date>>),
                             fuel - 1)

\* lines 77-88: the loop, followed for at most fuel iterations; a loop still
\* going then is reported as "running", with the chunks appended so far, and
\* one whose next date leaves the range of datetime raises OverflowError
RECURSIVE SplitLoop(_, _, _, _, _)
SplitLoop(current, end, delta, final_time_chunks, fuel) ==
    LET probable_next_date == Plus(current, delta)
    IN  IF fuel = 0
        THEN [status |-> "running", chunks |-> final_time_chunks]
        ELSE IF Overflows(probable_next_date)
        THEN [status |-> "OverflowError", chunks |-> <<>>]
        ELSE IF Timestamp(probable_next_date) >= Timestamp(end)
        THEN IF Timestamp(current) = Timestamp(probable_next_date)
             THEN [status |-> "ok", chunks |-> final_time_chunks]
             ELSE [status |-> "ok",
                   chunks |-> Append(final_time_chunks, <<current, end>>)]
        ELSE SplitLoop(probable_next_date, end, delta,
                       Append(final_time_chunks, <<current, probable_next_date>>),
                       fuel - 1)

\* the call without the reversal of lines 90-91
SplitKnownKeepsOrder(start, end, timespan, high_volatility, reverse) ==
    LET delta == ChunkDelta(timespan, high_volatility)
        start_ts == normalize_datetime(start, "ts", "start", 0)
        end_ts == normalize_datetime(end, "ts", "end", 0)
        start_dt == normalize_datetime(start_ts, "datetime", "start", 0)
        end_dt == normalize_datetime(end_ts, "datetime", "start", 0)
    IN  IF FitsOneChunk(Timestamp(end_dt) - Timestamp(start_dt), delta)
        THEN [status |-> "ok",
              chunks |-> << <<normalize_datetime(start, "nts", "start", 0),
                              normalize_datetime(end, "nts", "start", 0)>> >>]
        ELSE SplitLoop(start_dt, end_dt, delta, <<>>, MaxIter)

\* lines 62-93: the call once the timespan is found in the table
SplitKnown(start, end, timespan, high_volatility, reverse) ==
    LET delta == ChunkDelta(timespan, high_volatility)
        \* line 68
        start_ts == normalize_datetime(start, "ts", "start", 0)
        end_ts == normalize_datetime(end, "ts", "end", 0)
        \* line 70
        start_dt == normalize_datetime(start_ts, "datetime", "start", 0)
        end_dt == normalize_datetime(end_ts, "datetime", "start", 0)
    IN  IF FitsOneChunk(Timestamp(end_dt) - Timestamp(start_dt), delta)
        THEN [status |-> "ok",
              chunks |-> << <<normalize_datetime(start, "nts", "start", 0),
                              normalize_datetime(end, "nts", "start", 0)>> >>]
        ELSE LET looped == SplitLoop(start_dt, end_dt, delta, <<>>, MaxIter)
             IN  IF looped.status = "ok" /\ reverse
                 THEN [looped EXCEPT !.chunks = Reverse(looped.chunks)]
                 ELSE looped

\* a lookup that falls back to the "day" entry for an absent key
split_date_range_default(start, end, timespan, high_volatility, reverse) ==
    SplitKnown(start, end, IF KnownTimespan(timespan) THEN timespan ELSE "day",
               high_volatility, reverse)

split_date_range(start, end, timespan, high_volatility, reverse) ==
    IF ~KnownTimespan(timespan)
    THEN [status |-> "ValueError", chunks |-> <<>>]
    ELSE SplitKnown(start, end, timespan, high_volatility, reverse)

(***************************************************************************)
(* The calls of split_date_range the model makes.                          *)
(***************************************************************************)
\* 19358 is 2023-01-01 and 19367 is 2023-01-10; the first two days are
\* 0001-01-02 and a day 1600 days after 0001-01-01
SplitDays ==
    {DayOf(MinDatetime) + 1, DayOf(MinDatetime) + 1600,
     0, 1, 25, 26, 40, 45, 46, 61, 2000, 2001, 3500, 3501, 7001, 19358, 19367}
SplitMinutes == {0, 30, 59, 60}

SplitInputs ==
    {Date(d) : d \in SplitDays} \cup {Str(d) : d \in SplitDays}
    \cup {Naive(d * MinutesPerDay + m) : d \in {0, 1, 45}, m \in SplitMinutes}
    \cup {Ts(d * MinutesPerDay + m) : d \in {0, 46, 3500}, m \in SplitMinutes}

Timespans == DOMAIN TIME_FRAME_CHUNKS \cup {"millisecond", "decade"}

\* the instants a call's arguments stand for (line 68)
StartOf(x) == normalize_datetime(x, "ts", "start", 0).v
EndOf(x) == normalize_datetime(x, "ts", "end", 0).v

\* the calls whose loop is over within MaxIter iterations: one that advances
\* reaches end, one that walks backwards reaches datetime.min
WithinFuel(start, end, timespan, high_volatility) ==
    KnownTimespan(timespan) =>
        LET delta == ChunkDelta(timespan, high_volatility)
        IN  /\ delta > 0 => (EndOf(end) - StartOf(start)) \div delta < MaxIter
            /\ delta < 0 => (StartOf(start) - MinDatetime) \div (0 - delta) < MaxIter

NoSplit ==
    [called |-> FALSE, start |-> None, end |-> None, timespan |-> "",
     high_volatility |-> FALSE, reverse |-> FALSE,
     result |-> [status |-> "none", chunks |-> <<>>]]

SplitRange ==
    /\ pc = "idle"
    /\ \E start \in SplitInputs, end \in SplitInputs, timespan \in Timespans,
          high_volatility \in BOOLEAN, reverse \in BOOLEAN :
          /\ WithinFuel(start, end, timespan, high_volatility)
          /\ split' = [called |-> TRUE, start |-> start, end |-> end,
                       timespan |-> timespan, high_volatility |-> high_volatility,
                       reverse |-> reverse,
                       result |-> split_date_range(start, end, timespan,
                                                   high_volatility, reverse)]
    /\ pc' = "split"
    /\ UNCHANGED <<sort_order, futures, idx, final_results, dupe_handler, log, ret, walk, seq, norm, opt, pool, upstream>>

(***************************************************************************)
(* BaseClient.get_full_range_aggregates and its BaseAsyncClient twin, with *)
(* run_parallel = True, info = True and warnings = True.                   *)
(*                                                                         *)
(* A candle is [t, w]: its timestamp 't' and, standing for the rest of the *)
(* record, the position in time_chunks of the window it was fetched for.   *)
(* A page is what one fetch returned: a dict with or without the 'results' *)
(* key and with a 'status', or the fault the fetch raised.                 *)
(***************************************************************************)
Statuses == {"OK", "ERROR"}

Candle(t, w) == [t |-> t, w |-> w]

\* the pages without data: no 'results' key, or an empty 'results' list
NoResults(status) == [fault |-> FALSE, has_results |-> FALSE, results |-> <<>>, status |-> status]
Results(data, status) == [fault |-> FALSE, has_results |-> TRUE, results |-> data, status |-> status]
Fault == [fault |-> TRUE, has_results |-> FALSE, results |-> <<>>, status |-> "ERROR"]

\* the timestamps of S in ascending order
RECURSIVE Ascending(_)
Ascending(S) ==
    IF S = {} THEN <<>>
    ELSE LET m == CHOOSE x \in S : \A y \in S : x <= y
         IN  <<m>> \o Ascending(S \ {m})

\* The timestamp lists of the pages the model's upstream returns: every set of
\* timestamps of 0 .. MaxT in ascending order, and every pair of timestamps
\* that is out of order or repeats a timestamp.
TimestampLists ==
    {Ascending(S) : S \in SUBSET (0..MaxT)}
    \cup {<<a, b>> : a \in 0..MaxT, b \in 0..MaxT}

\* what a fetch may come back with; Candles tags the timestamps of a list
\* with the window they were fetched for
Responses ==
    {Results(l, "OK") : l \in TimestampLists \ {<<>>}}
    \cup {Results(<<>>, st) : st \in Statuses}
    \cup {NoResults(st) : st \in Statuses}
    \cup {Fault}

Candles(l, w) == [i \in 1..Len(l) |-> Candle(l[i], w)]

PageOf(response, w) == [response EXCEPT !.results = Candles(response.results, w)]

\* a time_chunks list of n windows of one hour, newest first, as
\* split_date_range returns it by default
TimeChunks(n) ==
    IF n = 0 THEN <<>>
    ELSE split_date_range(Naive(0), Naive(60 * n), "second", FALSE, TRUE).chunks

\* lines 535-551: the fetch submitted for a chunk, and the page it came back with
Submit(chunk, page) ==
    [from |-> normalize_datetime(chunk[1], "nts", "start", 0),
     to |-> normalize_datetime(chunk[2], "nts", "end", 0),
     sort |-> "asc",
     page |-> page]

\* line 553: the order in which the futures are read, as positions in futures
CollectOrderForward(n) == [k \in 1..n |-> k]

CollectOrder(n) == [k \in 1..n |-> n + 1 - k]

\* lines 554-570: a page without the 'results' key or with an empty list is skipped
IsSkippedNoEmptyCheck(page) == ~page.has_results

\* a skip that also looks at the status of the page
IsSkippedOnStatus(page) == ~page.has_results \/ Len(page.results) < 1 \/ page.status # "OK"

IsSkipped(page) == ~page.has_results \/ Len(page.results) < 1

\* lines 557-561 and 565-569: the line printed for a skipped page
LogLine(page) == IF page.status = "OK" THEN "INFO" ELSE "WARN"

\* line 572: the candles of a page that pass the duplicate filter
FreshInclusive(data, dupe) == SelectSeq(data, LAMBDA candle : candle.t >= dupe)

Fresh(data, dupe) == SelectSeq(data, LAMBDA candle : candle.t > dupe)

NoReturn == [status |-> "none", value |-> <<>>]

\* the locals of the loop of line 553: the position in reversed(futures), the
\* two accumulators, the lines printed, and the exception raised, if any
LoopStart ==
    [idx |-> 1, final_results |-> <<>>, dupe_handler |-> 0, log |-> <<>>,
     raised |-> "none"]

\* lines 554-573 (1446-1467): one iteration of the loop, on the future at
\* position st.idx of reversed(futs)
CollectStep(futs, st) ==
    LET page == futs[CollectOrder(Len(futs))[st.idx]].page
        merged == st.final_results \o Fresh(page.results, st.dupe_handler)
    IN  IF page.fault
        THEN \* future.result() re-raises what the fetch raised
             [st EXCEPT !.raised = "fault"]
        ELSE IF IsSkipped(page)
        THEN [st EXCEPT !.log = Append(st.log, LogLine(page)), !.idx = st.idx + 1]
        ELSE IF merged = <<>>
        THEN \* final_results[-1] of an empty list
             [st EXCEPT !.raised = "IndexError"]
        ELSE [st EXCEPT !.final_results = merged,
                        !.dupe_handler = merged[Len(merged)].t,
                        !.idx = st.idx + 1]

\* lines 553-573 (1445-1467): the loop, from st, for at most steps iterations
RECURSIVE CollectLoop(_, _, _)
CollectLoop(futs, st, steps) ==
    IF steps = 0 \/ st.idx > Len(futs) \/ st.raised # "none"
    THEN st
    ELSE CollectLoop(futs, CollectStep(futs, st), steps - 1)

\* a return without the reversal of lines 575-576
ReturnedAsBuilt(st, sort) ==
    IF st.raised # "none"
    THEN [status |-> st.raised, value |-> <<>>]
    ELSE [status |-> "ok", value |-> st.final_results]

\* lines 575-578 (1469-1472): the list is reversed for a descending sort and returned
Returned(st, sort) ==
    IF st.raised # "none"
    THEN [status |-> st.raised, value |-> <<>>]
    ELSE [status |-> "ok",
          value |-> IF sort \in {"desc", "descending"}
                    THEN Reverse(st.final_results)
                    ELSE st.final_results]

\* lines 527-578 (1417-1472): a call with run_parallel = True.  The chunks are
\* submitted and every fetch is awaited before the first future is read (the
\* pool is shut down, the coroutines are gathered); the async client's gather
\* re-raises the fault of a fetch at once, the sync client's future.result()
\* when the loop reads that future.
FetchParallel ==
    /\ pc = "idle"
    /\ \E n \in 0..MaxWindows, sort \in {"asc", "desc"}, async \in BOOLEAN :
         \E time_chunks \in {TimeChunks(n)}, pages \in [1..n -> Responses] :
           \E futs \in {[w \in 1..n |-> Submit(time_chunks[w], PageOf(pages[w], w))]} :
             \E gathered \in {IF async /\ \E w \in 1..n : pages[w].fault
                              THEN [LoopStart EXCEPT !.raised = "fault"]
                              ELSE LoopStart} :
               \E st \in {CollectLoop(futs, gathered, n)} :
                  /\ sort_order' = sort
                  /\ futures' = futs
                  /\ idx' = st.idx
                  /\ final_results' = st.final_results
                  /\ dupe_handler' = st.dupe_handler
                  /\ log' = st.log
                  /\ ret' = Returned(st, sort)
    /\ pc' = "done"
    /\ UNCHANGED <<split, walk, seq, norm, opt, pool, upstream>>

(***************************************************************************)
(* The pagination walker: get_next_page, get_previous_page, get_all_pages  *)
(* and _paginate of BaseClient and of BaseAsyncClient.                     *)
(*                                                                         *)
(* The upstream is a chain of pages, chain[1] being the response the       *)
(* caller starts from.  A page is a response whose body is a JSON object:  *)
(*   ok            the HTTP status is below 400                            *)
(*   next_url,     the cursors: Absent when the body has no such key,      *)
(*   previous_url  Malformed when the value is not a URL, else the         *)
(*                 position in chain of the page the URL returns           *)
(*   has_results,  the 'results' key and its list; a record is [page, k],  *)
(*   results       the k-th record of the page at that position            *)
(***************************************************************************)
Absent == 0
Malformed == 0 - 1

\* max_pages: None or an int
NoCap == [int |-> FALSE, n |-> 0]
Cap(n) == [int |-> TRUE, n |-> n]

Record(page, k) == [page |-> page, k |-> k]

\* what a list holds for a page: the Response object or the decoded dict
Raw(page) == [page |-> page, raw |-> TRUE]
Decoded(page) == [page |-> page, raw |-> FALSE]

\* line 407, `if not _res`: a requests.Response is true when its status is
\* below 400; an httpx.Response defines no truth value and is always true
Truthy(page, async) == async \/ page.ok

\* lines 393-396: the key of the cursor that fn reads
CursorKeyOther(direction) ==
    IF direction \in {"prev", "previous"} THEN "next_url" ELSE "previous_url"

CursorKey(direction) ==
    IF direction \in {"prev", "previous"} THEN "previous_url" ELSE "next_url"

\* a cap compared with > instead of >= (line 400)
ReachedCapLate(container, max_pages) ==
    max_pages.int /\ Len(container) > max_pages.n

\* line 400: len(container) >= max_pages, where None and 0 were replaced by
\* float("inf") in lines 388-391
ReachedCap(container, max_pages) ==
    max_pages.int /\ max_pages.n # 0 /\ Len(container) >= max_pages.n

\* lines 399-419: the loop, followed for at most fuel calls of fn; _res is the
\* position in chain of the current page, calls counts the calls of fn and
\* requests lists the pages requested by URL.  A loop still going when the
\* fuel is spent is reported as "running".
RECURSIVE WalkLoop(_, _, _, _, _, _, _, _, _, _)
WalkLoop(chain, direction, max_pages, raw_responses, async, _res, container, calls, requests, fuel) ==
    LET url == chain[_res][CursorKey(direction)]
        here == [status |-> "ok", container |-> container, calls |-> calls,
                 requests |-> requests]
    IN  IF ReachedCap(container, max_pages)
        THEN here
        ELSE IF fuel = 0
        THEN [here EXCEPT !.status = "running"]
        ELSE IF url = Absent
        THEN \* fn caught the KeyError and returned False
             [here EXCEPT !.calls = calls + 1]
        ELSE IF url = Malformed
        THEN \* the request for a value that is no URL raises
             [here EXCEPT !.status = "fault", !.calls = calls + 1]
        ELSE IF ~Truthy(chain[url], async)
        THEN [here EXCEPT !.calls = calls + 1, !.requests = Append(requests, url)]
        ELSE WalkLoop(chain, direction, max_pages, raw_responses, async, url,
                      Append(container, IF raw_responses THEN Raw(url) ELSE Decoded(url)),
                      calls + 1, Append(requests, url), fuel - 1)

\* lines 387-421 (1286-1320)
get_all_pages(chain, max_pages, direction, raw_responses, async) ==
    WalkLoop(chain, direction, max_pages, raw_responses, async, 1, <<>>, 0, <<>>,
             MaxFetches)

\* a merge that puts the records of each page before those merged so far
RECURSIVE MergedPrepending(_, _)
MergedPrepending(chain, pages) ==
    IF pages = <<>> THEN <<>>
    ELSE MergedPrepending(chain, Tail(pages)) \o chain[Head(pages).page].results

\* lines 455-458: the records of a list of pages, in the order of the list
RECURSIVE Merged(_, _)
Merged(chain, pages) ==
    IF pages = <<>> THEN <<>>
    ELSE chain[Head(pages).page].results \o Merged(chain, Tail(pages))

\* a lookup of 'results' that fails only for the initial page
RaisesKeyErrorFirstOnly(chain, pages) == ~chain[pages[1].page].has_results

\* line 458: page["results"] raises KeyError for a page without the key
RaisesKeyError(chain, pages) ==
    \E i \in 1..Len(pages) : ~chain[pages[i].page].has_results

\* lines 443-444: the initial page is taken from an int budget
PageBudget(max_pages) ==
    IF max_pages.int THEN Cap(max_pages.n - 1) ELSE max_pages

\* lines 443-462 (1342-1361)
_paginate(chain, merge_all_pages, max_pages, raw_page_responses, async) ==
    LET raw == ~merge_all_pages /\ raw_page_responses
        walked == get_all_pages(chain, PageBudget(max_pages), "next", raw, async)
        pages == <<IF raw THEN Raw(1) ELSE Decoded(1)>> \o walked.container
        out == [status |-> walked.status, kind |-> "pages", value |-> <<>>,
                calls |-> walked.calls, requests |-> walked.requests]
    IN  IF walked.status # "ok"
        THEN out
        ELSE IF ~merge_all_pages
        THEN [out EXCEPT !.value = pages]
        ELSE IF RaisesKeyError(chain, pages)
        THEN \* lines 459-460
             [out EXCEPT !.value = pages]
        ELSE [out EXCEPT !.kind = "records", !.value = Merged(chain, pages)]

(***************************************************************************)
(* The chains the model walks: n pages linked one to the next by the       *)
(* cursor of one direction and back by the cursor of the other; the last   *)
(* page has no cursor, a malformed one, or one that leads back to a page   *)
(* of the chain.  At most one page other than the first is a response with *)
(* an HTTP error status.  A page has no 'results' key, one record or two.  *)
(***************************************************************************)
PageContents == {"none", "one", "two"}

ResultsOf(content, i) ==
    CASE content = "one" -> <<Record(i, 1)>>
      [] content = "two" -> <<Record(i, 1), Record(i, 2)>>
      [] OTHER -> <<>>

ChainOf(n, direction, tail, err, contents) ==
    [i \in 1..n |->
        LET forward == IF i < n THEN i + 1 ELSE tail
            back == IF i > 1 THEN i - 1 ELSE Absent
        IN  [ok |-> i # err,
             next_url |-> IF direction = "next" THEN forward ELSE back,
             previous_url |-> IF direction = "next" THEN back ELSE forward,
             has_results |-> contents[i] # "none",
             results |-> ResultsOf(contents[i], i)]]

Chains(direction) ==
    UNION {{ChainOf(n, direction, tail, err, contents) :
                tail \in {Absent, Malformed} \cup 1..n,
                err \in {0} \cup 2..n,
                contents \in [1..n -> PageContents]} : n \in 1..MaxPages}

MaxPagesArgs == {NoCap} \cup {Cap(k) : k \in 0..(MaxPages + 1)}

NoWalk ==
    [called |-> "", chain |-> <<>>, max_pages |-> NoCap, direction |-> "next",
     merge_all_pages |-> FALSE, raw |-> FALSE, async |-> FALSE,
     result |-> [status |-> "none", kind |-> "pages", value |-> <<>>,
                 calls |-> 0, requests |-> <<>>]]

\* a call of get_all_pages with the first page of a chain
WalkAll ==
    /\ pc = "idle"
    /\ \E direction \in {"next", "previous"}, max_pages \in MaxPagesArgs,
          raw_responses \in BOOLEAN, async \in BOOLEAN :
         \E chain \in Chains(direction) :
           \E walked \in {get_all_pages(chain, max_pages, direction, raw_responses, async)} :
              walk' = [called |-> "get_all_pages", chain |-> chain,
                       max_pages |-> max_pages, direction |-> direction,
                       merge_all_pages |-> FALSE, raw |-> raw_responses,
                       async |-> async,
                       result |-> [status |-> walked.status, kind |-> "pages",
                                   value |-> walked.container,
                                   calls |-> walked.calls,
                                   requests |-> walked.requests]]
    /\ pc' = "walked"
    /\ UNCHANGED <<split, sort_order, futures, idx, final_results, dupe_handler, log, ret, seq, norm, opt, pool, upstream>>

\* a call of _paginate with the first page of a chain
Paginate ==
    /\ pc = "idle"
    /\ \E merge_all_pages \in BOOLEAN, max_pages \in MaxPagesArgs,
          raw_page_responses \in BOOLEAN, async \in BOOLEAN :
         \E chain \in Chains("next") :
            walk' = [called |-> "_paginate", chain |-> chain,
                     max_pages |-> max_pages, direction |-> "next",
                     merge_all_pages |-> merge_all_pages,
                     raw |-> raw_page_responses, async |-> async,
                     result |-> _paginate(chain, merge_all_pages, max_pages,
                                          raw_page_responses, async)]
    /\ pc' = "walked"
    /\ UNCHANGED <<split, sort_order, futures, idx, final_results, dupe_handler, log, ret, seq, norm, opt, pool, upstream>>

(***************************************************************************)
(* get_full_range_aggregates with run_parallel = False, info = True and    *)
(* warnings = True (lines 580-679, 1474-1573).  time_chunks is the pair    *)
(* (start, end).  The call is followed from one call of fn to the next:    *)
(* SeqStart runs to the first request, SeqSingle and SeqStep take the page *)
(* that came back and run to the next request or to the return.  seq holds *)
(* the requests made and the pages received, in order.                     *)
(***************************************************************************)
\* lines 597-607 and 629-639: the window and the sort order a request asks for
RequestSwapped(current_dt, end_dt, sort) ==
    [from |-> end_dt, to |-> current_dt, sort |-> sort]

Request(current_dt, end_dt, sort) ==
    [from |-> current_dt, to |-> end_dt, sort |-> sort]

\* line 586: the lookup of the timespan
KnownChunk(timespan) == timespan \in DOMAIN TIME_FRAME_CHUNKS

\* lines 594-596: the range is at most one chunk long, in whole days
FitsOneRequest(first_entry, end_dt, timespan) ==
    Days(Timestamp(normalize_datetime(Ts(end_dt), "datetime", "end", 0))
         - Timestamp(normalize_datetime(Ts(first_entry), "datetime", "start", 0)))
        <= Days(TIME_FRAME_CHUNKS[timespan])

\* a test that never finds the step without new records
StalledNever(data, before, after, dupe) == FALSE

\* lines 672-674: the step added nothing and the page ends at or below the mark
Stalled(data, before, after, dupe) ==
    Len(after) = Len(before) /\ data[Len(data)].t <= dupe

\* lines 641-677: what one page does to the locals of the loop; stop is set
\* by a break, raised by an exception
SequentialStep(st, page) ==
    LET merged == st.final_results \o Fresh(page.results, st.dupe_handler)
    IN  IF page.fault
        THEN [st EXCEPT !.raised = "fault"]
        ELSE IF ~page.has_results
        THEN [st EXCEPT !.log = Append(st.log, LogLine(page)), !.stop = TRUE]
        ELSE IF Len(page.results) < 1
        THEN [st EXCEPT !.log = Append(st.log, "No data"), !.stop = TRUE]
        ELSE IF Stalled(page.results, st.final_results, merged, st.dupe_handler)
        THEN [st EXCEPT !.stop = TRUE]
        ELSE IF merged = <<>>
        THEN \* final_results[-1] of an empty list
             [st EXCEPT !.raised = "IndexError"]
        ELSE [st EXCEPT !.final_results = merged,
                        !.current_dt = merged[Len(merged)].t,
                        !.dupe_handler = merged[Len(merged)].t]

\* the ranges, timespans and pages of the sequential calls of the model: a
\* range within one day and one that ends on the next day, given as
\* timestamps and as dates; the timestamps of a page are among the first
\* minutes of the range and its end
SeqRanges ==
    {<<Ts(0), Ts(3)>>, <<Date(0), Date(0)>>,
     <<Ts(0), Ts(MinutesPerDay)>>, <<Date(0), Date(1)>>}

SeqTimespans == {"second", "minute", "decade"}

SeqOffsets == {0, 1, 2}

SeqTimes == {seq.first_entry + k : k \in SeqOffsets} \cup {seq.end_dt}

SeqResponses ==
    {Results(l, "OK") : l \in ({Ascending(S) : S \in SUBSET SeqTimes}
                               \cup {Reverse(Ascending(S)) : S \in SUBSET SeqTimes}
                               \cup {<<t, t>> : t \in SeqTimes}) \ {<<>>}}
    \cup {Results(<<>>, st) : st \in Statuses}
    \cup {NoResults(st) : st \in Statuses}
    \cup {Fault}

NoSeq ==
    [called |-> FALSE, start |-> None, end |-> None, timespan |-> "",
     first_entry |-> 0, current_dt |-> 0, end_dt |-> 0,
     requests |-> <<>>, pages |-> <<>>]

\* lines 581-639: the call up to its first request
SeqStart ==
    /\ pc = "idle"
    /\ \E range \in SeqRanges, timespan \in SeqTimespans, sort \in {"asc", "desc"} :
         LET current_dt == normalize_datetime(range[1], "ts", "start", 0).v
             end_dt == normalize_datetime(range[2], "ts", "end", 0).v
             called == [NoSeq EXCEPT !.called = TRUE, !.start = range[1],
                                     !.end = range[2], !.timespan = timespan,
                                     !.first_entry = current_dt,
                                     !.current_dt = current_dt, !.end_dt = end_dt]
             asked == [called EXCEPT !.requests = <<Request(current_dt, end_dt, sort)>>]
         IN  /\ sort_order' = sort
             /\ final_results' = <<>>
             /\ log' = <<>>
             /\ IF ~KnownChunk(timespan)
                THEN /\ seq' = called
                     /\ dupe_handler' = 0
                     /\ ret' = [status |-> "ValueError", value |-> <<>>]
                     /\ pc' = "returned"
                ELSE IF FitsOneRequest(current_dt, end_dt, timespan)
                THEN /\ seq' = asked
                     /\ dupe_handler' = 0
                     /\ ret' = NoReturn
                     /\ pc' = "single"
                ELSE IF current_dt >= end_dt
                THEN /\ seq' = called
                     /\ dupe_handler' = current_dt
                     /\ ret' = [status |-> "ok", value |-> <<>>]
                     /\ pc' = "returned"
                ELSE /\ seq' = asked
                     /\ dupe_handler' = current_dt
                     /\ ret' = NoReturn
                     /\ pc' = "sequential"
    /\ UNCHANGED <<split, futures, idx, walk, norm, opt, pool, upstream>>

\* lines 608-623: what the page of the only request of a short range does:
\* its 'results' are returned as they are, a page without the key is logged
SingleStep(lg, res) ==
    IF res.fault
    THEN [log |-> lg, ret |-> [status |-> "fault", value |-> <<>>]]
    ELSE IF res.has_results
    THEN [log |-> lg, ret |-> [status |-> "ok", value |-> res.results]]
    ELSE [log |-> Append(lg, LogLine(res)), ret |-> [status |-> "ok", value |-> <<>>]]

\* lines 608-621: the page of the only request of a short range
SeqSingle ==
    /\ pc = "single"
    /\ \E response \in SeqResponses :
         LET res == PageOf(response, 1)
             st == SingleStep(log, res)
         IN  /\ seq' = [seq EXCEPT !.pages = Append(seq.pages, res)]
             /\ log' = st.log
             /\ ret' = st.ret
    /\ pc' = "returned"
    /\ UNCHANGED <<split, sort_order, futures, idx, final_results, dupe_handler, walk, norm, opt, pool, upstream>>

\* lines 641-677 and 625-639: the page of a request of the loop, up to the
\* next request or to the return of line 679
SeqStep ==
    /\ pc = "sequential"
    /\ \E response \in SeqResponses :
         LET res == PageOf(response, Len(seq.requests))
             st == SequentialStep([current_dt |-> seq.current_dt,
                                   dupe_handler |-> dupe_handler,
                                   final_results |-> final_results,
                                   log |-> log, raised |-> "none", stop |-> FALSE],
                                  res)
             over == st.stop \/ st.current_dt >= seq.end_dt
             got == [seq EXCEPT !.pages = Append(seq.pages, res),
                                !.current_dt = st.current_dt]
         IN  /\ final_results' = st.final_results
             /\ dupe_handler' = st.dupe_handler
             /\ log' = st.log
             /\ IF st.raised # "none"
                THEN /\ seq' = got
                     /\ ret' = [status |-> st.raised, value |-> <<>>]
                     /\ pc' = "returned"
                ELSE IF over
                THEN /\ seq' = got
                     /\ ret' = [status |-> "ok", value |-> st.final_results]
                     /\ pc' = "returned"
                ELSE /\ seq' = [got EXCEPT !.requests = Append(seq.requests,
                                               Request(st.current_dt, seq.end_dt, sort_order))]
                     /\ ret' = NoReturn
                     /\ pc' = "sequential"
    /\ UNCHANGED <<split, sort_order, futures, idx, walk, norm, opt, pool, upstream>>

(***************************************************************************)
(* get_full_range_aggregates over a range, against an upstream that holds  *)
(* a set of records (their timestamps) and answers every request with its  *)
(* records inside the window asked for, in the order asked for, at most    *)
(* `limit` of them (0: all).  The window of a request given as             *)
(* 'YYYY-MM-DD' strings runs from 00:00 of the first day to the last       *)
(* minute of the second.  In parallel mode time_chunks is what             *)
(* split_date_range returns for the range; in sequential mode it is the    *)
(* pair (start, end).                                                      *)
(***************************************************************************)
\* the instants a window given to fn begins and ends at
WindowStart(from) == IF from.kind = "str" THEN from.v * MinutesPerDay ELSE from.v
WindowEnd(to) == IF to.kind = "str" THEN to.v * MinutesPerDay + EndOfDay ELSE to.v

FirstOf(s, n) == IF n = 0 \/ Len(s) <= n THEN s ELSE SubSeq(s, 1, n)

\* what fn returns for the window lo .. hi: a page with the records of the
\* window, or a page with an empty list
Upstream(records, limit, lo, hi, sort) ==
    LET inside == Ascending({t \in records : lo <= t /\ t <= hi})
        sorted == IF sort \in {"desc", "descending"} THEN Reverse(inside) ELSE inside
    IN  Results(FirstOf(sorted, limit), "OK")

\* lines 527-578: the parallel mode on the chunks of the range
ParallelRun(start, end, timespan, sort, records) ==
    LET chunks == split_date_range(start, end, timespan, FALSE, TRUE)
        n == Len(chunks.chunks)
        asked == [w \in 1..n |-> Submit(chunks.chunks[w], NoResults("OK"))]
        futs == [w \in 1..n |->
                    [asked[w] EXCEPT !.page =
                        PageOf(Upstream(records, 0, WindowStart(asked[w].from),
                                        WindowEnd(asked[w].to), asked[w].sort), w)]]
        st == CollectLoop(futs, LoopStart, n)
    IN  IF chunks.status # "ok"
        THEN [futures |-> <<>>, st |-> [LoopStart EXCEPT !.raised = chunks.status],
              ret |-> [status |-> chunks.status, value |-> <<>>]]
        ELSE [futures |-> futs, st |-> st, ret |-> Returned(st, sort)]

\* lines 625-677: the loop of the sequential mode, one request after the
\* other, for at most fuel requests
RECURSIVE SequentialLoop(_, _, _, _, _, _)
SequentialLoop(st, end_dt, sort, records, limit, fuel) ==
    IF st.current_dt >= end_dt \/ st.stop \/ st.raised # "none"
    THEN st
    ELSE IF fuel = 0
    THEN [st EXCEPT !.raised = "running"]
    ELSE LET request == Request(st.current_dt, end_dt, sort)
             page == PageOf(Upstream(records, limit, request.from, request.to, request.sort),
                            Len(st.requests) + 1)
             asked == [st EXCEPT !.requests = Append(st.requests, request),
                                 !.pages = Append(st.pages, page)]
         IN  SequentialLoop(SequentialStep(asked, page), end_dt, sort, records, limit, fuel - 1)

\* lines 580-679: the sequential mode on the range
SequentialRun(start, end, timespan, sort, records, limit) ==
    LET current_dt == normalize_datetime(start, "ts", "start", 0).v
        end_dt == normalize_datetime(end, "ts", "end", 0).v
        begin == [current_dt |-> current_dt, dupe_handler |-> current_dt,
                  final_results |-> <<>>, log |-> <<>>, raised |-> "none",
                  stop |-> FALSE, requests |-> <<>>, pages |-> <<>>]
        request == Request(current_dt, end_dt, sort)
        page == PageOf(Upstream(records, limit, request.from, request.to, request.sort), 1)
        single == SingleStep(<<>>, page)
        st == SequentialLoop(begin, end_dt, sort, records, limit, MaxRequests)
    IN  IF ~KnownChunk(timespan)
        THEN [st |-> [begin EXCEPT !.dupe_handler = 0],
              ret |-> [status |-> "ValueError", value |-> <<>>]]
        ELSE IF FitsOneRequest(current_dt, end_dt, timespan)
        THEN [st |-> [begin EXCEPT !.dupe_handler = 0, !.log = single.log,
                                   !.requests = <<request>>, !.pages = <<page>>],
              ret |-> single.ret]
        ELSE [st |-> st,
              ret |-> IF st.raised # "none"
                      THEN [status |-> st.raised, value |-> <<>>]
                      ELSE [status |-> "ok", value |-> st.final_results]]

\* The ranges of the model, with day 1 as the first day so that every
\* timestamp is above 0: two and a half hours and a day and an hour of
\* hourly chunks, one day given as a date, and ten and fifty days of 45-day
\* chunks.  Only the last is longer than one chunk for the sequential mode
\* too, as is the range of a day and an hour.
RangeCalls ==
    {<<Naive(MinutesPerDay + 60), Naive(MinutesPerDay + 210), "second">>,
     <<Naive(MinutesPerDay), Naive(2 * MinutesPerDay + 60), "second">>,
     <<Date(1), Date(1), "second">>,
     <<Date(1), Date(10), "minute">>,
     <<Date(1), Date(50), "minute">>}

\* the timestamps the upstream may hold for a range: around its start, around
\* the end of its first chunk and around its end
RangeTimes(start, end, timespan) ==
    LET S == StartOf(start)
        E == EndOf(end)
        delta == TIME_FRAME_CHUNKS[timespan]
    IN  {S - 1, S, S + 1, S + delta, S + delta + 1, E, E + 1}

\* at most MaxRecords records in the upstream
RecordSets(times) == {R \in SUBSET times : Cardinality(R) <= MaxRecords}

\* the per-request limits of the upstream: none, or two records
Limits == {0, 2}

NoUpstream ==
    [called |-> FALSE, parallel |-> FALSE, start |-> None, end |-> None,
     timespan |-> "", records |-> {}, limit |-> 0, requests |-> <<>>]

\* a call with run_parallel = True over the chunks of a range
RangeParallel ==
    /\ pc = "idle"
    /\ \E call \in RangeCalls, sort \in {"asc", "desc"} :
         \E records \in RecordSets(RangeTimes(call[1], call[2], call[3])) :
            \E run \in {ParallelRun(call[1], call[2], call[3], sort, records)} :
               /\ upstream' = [called |-> TRUE, parallel |-> TRUE, start |-> call[1],
                               end |-> call[2], timespan |-> call[3],
                               records |-> records, limit |-> 0,
                               requests |-> [w \in 1..Len(run.futures) |->
                                               [from |-> WindowStart(run.futures[w].from),
                                                to |-> WindowEnd(run.futures[w].to),
                                                sort |-> run.futures[w].sort]]]
               /\ sort_order' = sort
               /\ futures' = run.futures
               /\ idx' = run.st.idx
               /\ final_results' = run.st.final_results
               /\ dupe_handler' = run.st.dupe_handler
               /\ log' = run.st.log
               /\ ret' = run.ret
    /\ pc' = "fetched"
    /\ UNCHANGED <<split, walk, seq, norm, opt, pool>>

\* a call with run_parallel = False over a range
RangeSequential ==
    /\ pc = "idle"
    /\ \E call \in RangeCalls, sort \in {"asc", "desc"}, limit \in Limits :
         \E records \in RecordSets(RangeTimes(call[1], call[2], call[3])) :
            \E run \in {SequentialRun(call[1], call[2], call[3], sort, records, limit)} :
               /\ upstream' = [called |-> TRUE, parallel |-> FALSE, start |-> call[1],
                               end |-> call[2], timespan |-> call[3],
                               records |-> records, limit |-> limit,
                               requests |-> run.st.requests]
               /\ sort_order' = sort
               /\ final_results' = run.st.final_results
               /\ dupe_handler' = run.st.dupe_handler
               /\ log' = run.st.log
               /\ ret' = run.ret
    /\ pc' = "fetched"
    /\ UNCHANGED <<split, futures, idx, walk, seq, norm, opt, pool>>

(***************************************************************************)
(* The calls of normalize_datetime the model makes: every kind of value,   *)
(* every output_type and _dir, the known ones and one the code does not    *)
(* know, and tz = None (UTC) or a timezone east or west of UTC.            *)
(***************************************************************************)
NormDays == {0, 1, 19358}
NormMinutes == {0, 1, 23 * 60 + 59}
NormOffsets == {0, 330, 0 - 300}

NormInputs ==
    {Date(d) : d \in NormDays} \cup {Str(d) : d \in NormDays}
    \cup {Naive(d * MinutesPerDay + m) : d \in NormDays, m \in NormMinutes}
    \cup {Aware(d * MinutesPerDay + m, 60) : d \in NormDays, m \in NormMinutes}
    \cup {Ts(d * MinutesPerDay + m) : d \in NormDays, m \in NormMinutes}
    \cup {None}

OutputTypes == {"ts", "nts", "str", "datetime", "date", "other"}
Dirs == {"start", "end", "other"}

NoNorm ==
    [called |-> FALSE, dt |-> None, output_type |-> "ts", dir |-> "start",
     tz |-> 0, result |-> [status |-> "none", value |-> None], back |-> None]

\* one call of normalize_datetime: the function has no raise statement, it
\* returns what a branch returns, or None when it runs off its end (line 159);
\* back is what a second call makes of the result as a date, with the same tz
Normalize ==
    /\ pc = "idle"
    /\ \E dt \in NormInputs, output_type \in OutputTypes, _dir \in Dirs, tz \in NormOffsets :
         \E value \in {normalize_datetime(dt, output_type, _dir, tz)} :
            norm' = [called |-> TRUE, dt |-> dt, output_type |-> output_type,
                     dir |-> _dir, tz |-> tz,
                     result |-> [status |-> "ok", value |-> value],
                     back |-> normalize_datetime(value, "date", _dir, tz)]
    /\ pc' = "normalized"
    /\ UNCHANGED <<split, sort_order, futures, idx, final_results, dupe_handler, log, ret, walk, seq, opt, pool, upstream>>

(***************************************************************************)
(* polygon/options/options.py: build_option_symbol_for_tda,                *)
(* parse_option_symbol_from_tda and the 'tda' branch of OptionSymbol.      *)
(*                                                                         *)
(* A string is a sequence of one-character strings.  An expiry is a        *)
(* datetime.date [year, month, day]; a strike price is a number of         *)
(* thousandths (the docstring allows three decimals), 240500 for 240.5.    *)
(***************************************************************************)
Digits == <<"0", "1", "2", "3", "4", "5", "6", "7", "8", "9">>
IsDigit(c) == \E n \in 1..10 : Digits[n] = c
DigitValue(c) == (CHOOSE n \in 1..10 : Digits[n] = c) - 1

\* the letters of the model's alphabet and str.upper, str.isalpha on them
UpperOf == [a |-> "A", b |-> "B", c |-> "C", p |-> "P"]
IsAlpha(c) == c \in DOMAIN UpperOf \/ c \in {UpperOf[l] : l \in DOMAIN UpperOf}
Upper(s) == [i \in 1..Len(s) |-> IF s[i] \in DOMAIN UpperOf THEN UpperOf[s[i]] ELSE s[i]]

\* str(n) of a non-negative int
RECURSIVE Decimal(_)
Decimal(n) == IF n < 10 THEN <<Digits[n + 1]>> ELSE Decimal(n \div 10) \o <<Digits[(n % 10) + 1]>>

\* int(s) of a string of digits
RECURSIVE IntOf(_)
IntOf(s) == IF s = <<>> THEN 0 ELSE IntOf(SubSeq(s, 1, Len(s) - 1)) * 10 + DigitValue(s[Len(s)])

\* '%m', '%d', '%y' of strftime: two digits
Pad2(n) == <<Digits[(n \div 10) + 1], Digits[(n % 10) + 1]>>

\* line 99: expiry.strftime('%m%d%y')
Strftime_mmddyy(expiry) == Pad2(expiry.month) \o Pad2(expiry.day) \o Pad2(expiry.year % 100)

\* line 101: 'C' if call_or_put.lower() in ['c', 'call'] else 'P'
Lower(word) ==
    CASE word = "C" -> "c" [] word = "CALL" -> "call" [] word = "Call" -> "call"
      [] word = "P" -> "p" [] word = "PUT" -> "put"
      [] OTHER -> word
CallOrPut(call_or_put) == IF Lower(call_or_put) \in {"c", "call"} THEN "C" ELSE "P"

\* the digits after the decimal point of a float's repr: no trailing zero
RECURSIVE Fraction(_)
Fraction(thousandths) ==
    IF thousandths % 10 = 0 THEN Fraction(thousandths \div 10)
    ELSE IF thousandths < 10 THEN <<Digits[thousandths + 1]>>
    ELSE Decimal(thousandths)
FractionDigits(thousandths) ==
    LET digits == Fraction(thousandths)
        shown == IF thousandths % 100 = 0 THEN 1 ELSE IF thousandths % 10 = 0 THEN 2 ELSE 3
    IN  [i \in 1..(shown - Len(digits)) |-> "0"] \o digits

\* line 103 and the f-strings of lines 105-108: a whole strike price is
\* written as an int, any other as the float it is
StrikeText(strike_price) ==
    IF strike_price % 1000 = 0
    THEN Decimal(strike_price \div 1000)
    ELSE Decimal(strike_price \div 1000) \o <<".">> \o FractionDigits(strike_price % 1000)

\* lines 77-108
build_option_symbol_for_tda(underlying_symbol, expiry, call_or_put, strike_price, format_) ==
    LET text == Strftime_mmddyy(expiry) \o <<CallOrPut(call_or_put)>> \o StrikeText(strike_price)
    IN  IF format_ = "dot"
        THEN <<".">> \o underlying_symbol \o text
        ELSE underlying_symbol \o <<"_">> \o text

\* the first two digits of this year, datetime.date.today().strftime('%Y')[:2]
Century == 20

IsLeap(year) == year % 4 = 0 /\ (year % 100 # 0 \/ year % 400 = 0)
DaysInMonth(year, month) ==
    CASE month = 2 -> IF IsLeap(year) THEN 29 ELSE 28
      [] month \in {4, 6, 9, 11} -> 30
      [] OTHER -> 31

\* datetime.date(year, month, day) raises ValueError outside the calendar
ValidDate(year, month, day) ==
    /\ month \in 1..12
    /\ day \in 1..DaysInMonth(year, month)

\* the number of leading characters of s that are letters (lines 698-701)
RECURSIVE LeadingAlpha(_)
LeadingAlpha(s) ==
    IF s = <<>> \/ ~IsAlpha(s[1]) THEN 0 ELSE 1 + LeadingAlpha(Tail(s))

\* float(text) of digits with an optional decimal point, in thousandths
FloatOf(text) ==
    LET dots == {i \in 1..Len(text) : text[i] = "."}
        point == IF dots = {} THEN Len(text) + 1 ELSE CHOOSE i \in dots : TRUE
        whole == SubSeq(text, 1, point - 1)
        frac == SubSeq(text, point + 1, Len(text))
        scale == CASE Len(frac) = 0 -> 0 [] Len(frac) = 1 -> 100 [] Len(frac) = 2 -> 10 [] OTHER -> 1
    IN  IntOf(whole) * 1000 + IntOf(frac) * scale

\* str.split('_'): the text before the first underscore and the text after it
\* (the symbols of the model hold one underscore)
SplitUnderscore(s) ==
    LET at == CHOOSE i \in 1..Len(s) : s[i] = "_"
    IN  <<SubSeq(s, 1, at - 1), SubSeq(s, at + 1, Len(s))>>

\* lines 694-717: OptionSymbol.__init__ with symbol_format = 'tda'
OptionSymbol(option_symbol, fmt) ==
    LET \* lines 696-704: the dot format is rewritten to the underscore format
        upper == Upper(Tail(option_symbol))
        num == LeadingAlpha(upper)
        rewritten ==
            SubSeq(upper, 1, num) \o <<"_">>
            \o SubSeq(upper, num + 3, num + 4) \o SubSeq(upper, num + 5, num + 6)
            \o SubSeq(upper, num + 1, num + 2) \o SubSeq(upper, num + 7, Len(upper))
        symbol == IF fmt = "dot" THEN rewritten ELSE option_symbol
        _split == SplitUnderscore(symbol)
        _expiry == SubSeq(_split[2], 1, 6)
        year == Century * 100 + IntOf(SubSeq(_expiry, 5, 6))
        month == IntOf(SubSeq(_expiry, 1, 2))
        day == IntOf(SubSeq(_expiry, 3, 4))
    IN  IF ~ValidDate(year, month, day)
        THEN [status |-> "ValueError", underlying_symbol |-> <<>>,
              expiry |-> [year |-> 0, month |-> 0, day |-> 0],
              call_or_put |-> "", strike_price |-> 0, option_symbol |-> <<>>]
        ELSE [status |-> "ok",
              underlying_symbol |-> _split[1],
              expiry |-> [year |-> year, month |-> month, day |-> day],
              call_or_put |-> _split[2][7],
              strike_price |-> FloatOf(SubSeq(_split[2], 8, Len(_split[2]))),
              option_symbol |-> symbol]

\* lines 109-136, with output_format = 'object'
parse_option_symbol_from_tda(option_symbol) ==
    OptionSymbol(option_symbol, IF option_symbol[1] = "." THEN "dot" ELSE "underscore")

(***************************************************************************)
(* The symbols the model builds and parses back.                           *)
(***************************************************************************)
Underlyings == {<<"A">>, <<"A", "B">>, <<"a", "b">>}
Expiry(y, m, d) == [year |-> y, month |-> m, day |-> d]
Expiries ==
    {Expiry(2021, 10, 15), Expiry(2010, 10, 10), Expiry(2021, 12, 10),
     Expiry(2022, 11, 11), Expiry(2024, 2, 29), Expiry(1999, 10, 15)}
CallOrPuts == {"c", "call", "C", "CALL", "p", "put", "P"}
StrikePrices == {125000, 240500, 15003, 500, 129020}
Formats == {"underscore", "dot"}

NoOpt ==
    [called |-> FALSE, underlying_symbol |-> <<>>, expiry |-> Expiry(0, 0, 0),
     call_or_put |-> "", strike_price |-> 0, format_ |-> "underscore",
     option_symbol |-> <<>>, parsed |-> [status |-> "none"]]

\* a symbol is built and parsed back
RoundTrip ==
    /\ pc = "idle"
    /\ \E u \in Underlyings, e \in Expiries, cp \in CallOrPuts, k \in StrikePrices, f \in Formats :
         \E symbol \in {build_option_symbol_for_tda(u, e, cp, k, f)} :
            opt' = [called |-> TRUE, underlying_symbol |-> u, expiry |-> e,
                    call_or_put |-> cp, strike_price |-> k, format_ |-> f,
                    option_symbol |-> symbol,
                    parsed |-> parse_option_symbol_from_tda(symbol)]
    /\ pc' = "parsed"
    /\ UNCHANGED <<split, sort_order, futures, idx, final_results, dupe_handler, log, ret, walk, seq, norm, pool, upstream>>

(***************************************************************************)
(* The parallel mode step by step: the coordinator submits one fetch per   *)
(* chunk to a ThreadPoolExecutor(max_workers) (sync client) or wraps it in *)
(* aw_task with a Semaphore(max_concurrent_workers) (async client), waits  *)
(* for the fetches and reads reversed(futures).  A task is                 *)
(*   "new"      not submitted yet                                          *)
(*   "queued"   submitted: in the executor's work queue, or a coroutine    *)
(*              that has not acquired the semaphore                        *)
(*   "running"  its fetch is in flight: a worker thread runs fn, or the    *)
(*              coroutine is inside `async with semaphore`                 *)
(*   "done"     the fetch returned or raised                               *)
(* max_concurrent_workers is at least 1: ThreadPoolExecutor(0) raises      *)
(* ValueError and Semaphore(0) is never acquired.                          *)
(***************************************************************************)
\* the most workers a call of the model is given
MaxWorkers == 2

\* what the fetch of a window comes back with in the step-by-step model
PoolResponses ==
    {Results(<<1, 2>>, "OK"), Results(<<2, 3>>, "OK"), NoResults("ERROR"), Fault}

NoPool ==
    [called |-> FALSE, async |-> FALSE, max_workers |-> 1, pages |-> <<>>,
     task |-> <<>>, completed |-> <<>>, folded |-> <<>>, raised |-> "none"]

NumWindows == Len(pool.pages)
Running == {w \in 1..NumWindows : pool.task[w] = "running"}
Queued == {w \in 1..NumWindows : pool.task[w] = "queued"}
AllDone == \A w \in 1..NumWindows : pool.task[w] = "done"

\* a pool that starts a queued fetch whatever the number in flight
CanStartAlways(in_flight, max_workers) == TRUE

\* a worker thread is free (the executor runs at most max_workers threads, one
\* work item each), or the semaphore's counter is above zero (line 1148)
CanStart(in_flight, max_workers) == in_flight < max_workers

\* results handed to the loop in the order the fetches completed
GatherResultsAsCompleted(futs, completed) == [k \in 1..Len(futs) |-> futs[completed[k]]]

\* line 1443: asyncio.gather returns the results in the order of its
\* arguments; the sync client's list of futures is never reordered
GatherResults(futs, completed) == futs

\* lines 525-531 (1415-1421): the call with run_parallel = True begins
PoolCall ==
    /\ pc = "idle"
    /\ \E n \in 0..MaxWindows, sort \in {"asc", "desc"}, async \in BOOLEAN :
         \E max_workers \in 1..MaxWorkers, pages \in [1..n -> PoolResponses] :
            /\ pool' = [NoPool EXCEPT !.called = TRUE, !.async = async,
                                      !.max_workers = max_workers,
                                      !.pages = [w \in 1..n |-> PageOf(pages[w], w)],
                                      !.task = [w \in 1..n |-> "new"]]
            /\ sort_order' = sort
    /\ pc' = "submitting"
    /\ UNCHANGED <<split, futures, idx, final_results, dupe_handler, log, ret, walk, seq, norm, opt, upstream>>

\* lines 534-551 (1423-1441): one iteration of the loop over time_chunks
PoolSubmit ==
    /\ pc = "submitting"
    /\ Len(futures) < NumWindows
    /\ LET w == Len(futures) + 1
       IN  /\ futures' = Append(futures, Submit(TimeChunks(NumWindows)[w], pool.pages[w]))
           /\ pool' = [pool EXCEPT !.task[w] = "queued"]
    /\ UNCHANGED <<pc, split, sort_order, idx, final_results, dupe_handler, log, ret, walk, seq, norm, opt, upstream>>

\* the loop over time_chunks is over: the with block is left, which waits for
\* the pool to shut down (line 533), or gather is awaited (line 1443)
PoolWait ==
    /\ pc = "submitting"
    /\ Len(futures) = NumWindows
    /\ pc' = "waiting"
    /\ UNCHANGED <<split, sort_order, futures, idx, final_results, dupe_handler, log, ret, walk, seq, norm, opt, pool, upstream>>

\* the oldest queued fetch starts: a worker thread takes it from the
\* executor's queue as soon as it is submitted; a coroutine runs only once
\* gather has scheduled it, and then enters `async with semaphore`
WorkerStart ==
    /\ pc \in {"submitting", "waiting"}
    /\ pool.async => pc = "waiting"
    /\ Queued # {}
    /\ CanStart(Cardinality(Running), pool.max_workers)
    /\ LET w == CHOOSE q \in Queued : \A o \in Queued : q <= o
       IN  pool' = [pool EXCEPT !.task[w] = "running"]
    /\ UNCHANGED <<pc, split, sort_order, futures, idx, final_results, dupe_handler, log, ret, walk, seq, norm, opt, upstream>>

\* a fetch in flight returns or raises, in any order; the exception of a
\* coroutine ends gather, and with it the call, at once
WorkerFinish ==
    /\ pc \in {"submitting", "waiting"}
    /\ \E w \in Running :
         /\ pool' = [pool EXCEPT !.task[w] = "done", !.completed = Append(pool.completed, w)]
         /\ IF pool.async /\ pool.pages[w].fault
            THEN /\ ret' = [status |-> "fault", value |-> <<>>]
                 /\ pc' = "pooled"
            ELSE UNCHANGED <<ret, pc>>
    /\ UNCHANGED <<split, sort_order, futures, idx, final_results, dupe_handler, log, walk, seq, norm, opt, upstream>>

\* every fetch is done: the pool has shut down, or gather returns the results
PoolGathered ==
    /\ pc = "waiting"
    /\ AllDone
    /\ futures' = GatherResults(futures, pool.completed)
    /\ pc' = "collecting"
    /\ UNCHANGED <<split, sort_order, idx, final_results, dupe_handler, log, ret, walk, seq, norm, opt, pool, upstream>>

\* lines 553-573 (1445-1467): one iteration of the loop over reversed(futures)
PoolCollect ==
    /\ pc = "collecting"
    /\ idx <= NumWindows
    /\ pool.raised = "none"
    /\ \E st \in {CollectStep(futures, [idx |-> idx, final_results |-> final_results,
                                        dupe_handler |-> dupe_handler, log |-> log,
                                        raised |-> "none"])} :
         /\ idx' = st.idx
         /\ final_results' = st.final_results
         /\ dupe_handler' = st.dupe_handler
         /\ log' = st.log
         /\ pool' = [pool EXCEPT !.raised = st.raised,
                                 !.folded = Append(pool.folded, CollectOrder(NumWindows)[idx])]
    /\ UNCHANGED <<pc, split, sort_order, futures, ret, walk, seq, norm, opt, upstream>>

\* lines 575-578 (1469-1472): the loop is over or has raised
PoolReturn ==
    /\ pc = "collecting"
    /\ idx > NumWindows \/ pool.raised # "none"
    /\ ret' = Returned([idx |-> idx, final_results |-> final_results,
                        dupe_handler |-> dupe_handler, log |-> log,
                        raised |-> pool.raised], sort_order)
    /\ pc' = "pooled"
    /\ UNCHANGED <<split, sort_order, futures, idx, final_results, dupe_handler, log, walk, seq, norm, opt, pool, upstream>>

Init ==
    /\ pc = "idle"
    /\ split = NoSplit
    /\ sort_order = "asc"
    /\ futures = <<>>
    /\ idx = 1
    /\ final_results = <<>>
    /\ dupe_handler = 0
    /\ log = <<>>
    /\ ret = NoReturn
    /\ walk = NoWalk
    /\ seq = NoSeq
    /\ norm = NoNorm
    /\ opt = NoOpt
    /\ pool = NoPool
    /\ upstream = NoUpstream

\* the caller has its result and is ready for another call
Forget ==
    /\ pc \in {"split", "done", "walked", "returned", "normalized", "parsed", "pooled", "fetched"}
    /\ pc' = "idle"
    /\ split' = NoSplit
    /\ sort_order' = "asc"
    /\ futures' = <<>>
    /\ idx' = 1
    /\ final_results' = <<>>
    /\ dupe_handler' = 0
    /\ log' = <<>>
    /\ ret' = NoReturn
    /\ walk' = NoWalk
    /\ seq' = NoSeq
    /\ norm' = NoNorm
    /\ opt' = NoOpt
    /\ pool' = NoPool
    /\ upstream' = NoUpstream

SplitNext == SplitRange \/ Forget

SplitSpec == Init /\ [][SplitNext]_vars

FetchNext == FetchParallel \/ Forget

FetchSpec == Init /\ [][FetchNext]_vars

PageNext == WalkAll \/ Paginate \/ Forget

PageSpec == Init /\ [][PageNext]_vars

SeqNext == SeqStart \/ SeqSingle \/ SeqStep \/ Forget

SeqSpec == Init /\ [][SeqNext]_vars

\* get_full_range_aggregates in both modes
EngineNext == FetchParallel \/ SeqStart \/ SeqSingle \/ SeqStep \/ Forget

EngineSpec == Init /\ [][EngineNext]_vars

NormNext == Normalize \/ Forget

NormSpec == Init /\ [][NormNext]_vars

OptionNext == RoundTrip \/ Forget

OptionSpec == Init /\ [][OptionNext]_vars

PoolNext ==
    \/ PoolCall
    \/ PoolSubmit
    \/ PoolWait
    \/ WorkerStart
    \/ WorkerFinish
    \/ PoolGathered
    \/ PoolCollect
    \/ PoolReturn
    \/ Forget

PoolSpec == Init /\ [][PoolNext]_vars

RangeNext == RangeParallel \/ RangeSequential \/ Forget

RangeSpec == Init /\ [][RangeNext]_vars

Next ==
    \/ SplitRange
    \/ FetchParallel
    \/ WalkAll
    \/ Paginate
    \/ SeqStart
    \/ SeqSingle
    \/ SeqStep
    \/ Normalize
    \/ RoundTrip
    \/ PoolCall
    \/ PoolSubmit
    \/ PoolWait
    \/ WorkerStart
    \/ WorkerFinish
    \/ PoolGathered
    \/ PoolCollect
    \/ PoolReturn
    \/ RangeParallel
    \/ RangeSequential
    \/ Forget

Spec == Init /\ [][Next]_vars

(***************************************************************************)
(* Properties of split_date_range, checked under SplitSpec.                *)
(***************************************************************************)
\* the instants a returned window stands for: its start is read as the start
\* of a range and its end as the end of one
WStart(w) == StartOf(w[1])
WEnd(w) == EndOf(w[2])

SplitChunks == split.result.chunks
SplitSpan == EndOf(split.end) - StartOf(split.start)

\* C6: for every timespan of the table, high_volatility = False and end > start,
\* the windows returned with reverse = False are chronologically ordered, the
\* first starts at the normalized start, the last ends at the normalized end,
\* and each window ends where the next starts.
C6_SplitCoversRange ==
    (/\ split.called
     /\ split.timespan \in DOMAIN TIME_FRAME_CHUNKS
     /\ ~split.high_volatility
     /\ ~split.reverse
     /\ SplitSpan > 0)
    => /\ split.result.status = "ok"
       /\ Len(SplitChunks) >= 1
       /\ WStart(SplitChunks[1]) = StartOf(split.start)
       /\ WEnd(SplitChunks[Len(SplitChunks)]) = EndOf(split.end)
       /\ \A i \in 1..Len(SplitChunks) : WStart(SplitChunks[i]) < WEnd(SplitChunks[i])
       /\ \A i \in 1..(Len(SplitChunks) - 1) :
              WEnd(SplitChunks[i]) = WStart(SplitChunks[i + 1])

\* a range of three chunks or more was split chronologically
C6_Witness ==
    /\ split.called
    /\ split.timespan \in DOMAIN TIME_FRAME_CHUNKS
    /\ ~split.high_volatility
    /\ ~split.reverse
    /\ SplitSpan > 0
    /\ Len(SplitChunks) >= 3

\* C7: for every timespan of the table and every (start, end) whose span is
\* smaller than the chunk duration, exactly one window is returned, and it is
\* (start, end).
C7_ShortRangeOneWindow ==
    (/\ split.called
     /\ split.timespan \in DOMAIN TIME_FRAME_CHUNKS
     /\ SplitSpan < ChunkDelta(split.timespan, split.high_volatility))
    => /\ split.result.status = "ok"
       /\ Len(SplitChunks) = 1
       /\ WStart(SplitChunks[1]) = StartOf(split.start)
       /\ WEnd(SplitChunks[1]) = EndOf(split.end)

\* split('2023-01-01', '2023-01-10', 'day') returned [('2023-01-01', '2023-01-10')]
C7_Witness ==
    /\ split.called
    /\ split.start = Str(19358)
    /\ split.end = Str(19367)
    /\ split.timespan = "day"
    /\ ~split.high_volatility
    /\ SplitChunks = << <<Str(19358), Str(19367)>> >>

\* C8: for every timespan of the table, both values of high_volatility and
\* every start <= end, every window of a returned list has start <= end and a
\* span of at most the effective chunk duration.
C8_WindowsWithinChunk ==
    (/\ split.called
     /\ split.timespan \in DOMAIN TIME_FRAME_CHUNKS
     /\ SplitSpan >= 0)
    => \A i \in 1..Len(SplitChunks) :
           /\ WStart(SplitChunks[i]) <= WEnd(SplitChunks[i])
           /\ WEnd(SplitChunks[i]) - WStart(SplitChunks[i])
                  <= ChunkDelta(split.timespan, split.high_volatility)

\* a volatile call returned several windows, the last one shorter than a chunk
C8_Witness ==
    /\ split.called
    /\ split.timespan \in DOMAIN TIME_FRAME_CHUNKS
    /\ split.high_volatility
    /\ ~split.reverse
    /\ SplitSpan >= 0
    /\ Len(SplitChunks) >= 2
    /\ WEnd(SplitChunks[Len(SplitChunks)]) - WStart(SplitChunks[Len(SplitChunks)])
           < ChunkDelta(split.timespan, TRUE)

\* C9: for every timespan of the table, the chunk duration used with
\* high_volatility = True is at most the one used with high_volatility = False.
C9_VolatileChunkNotLonger ==
    (split.called /\ split.timespan \in DOMAIN TIME_FRAME_CHUNKS)
    => ChunkDelta(split.timespan, TRUE) <= ChunkDelta(split.timespan, FALSE)

\* a volatile call returned more windows than the same call without the hint
C9_Witness ==
    /\ split.called
    /\ split.timespan \in DOMAIN TIME_FRAME_CHUNKS
    /\ split.high_volatility
    /\ split.result.status = "ok"
    /\ Len(SplitChunks) >
           Len(split_date_range(split.start, split.end, split.timespan,
                                FALSE, split.reverse).chunks)

\* C10: a call with a timespan that is no key of the table fails with
\* ValueError and returns no window list, whatever the other arguments.
C10_UnknownTimespanFails ==
    (split.called /\ split.timespan \notin DOMAIN TIME_FRAME_CHUNKS)
    => /\ split.result.status = "ValueError"
       /\ SplitChunks = <<>>

\* a call with the absent key "decade" and the volatility hint failed
C10_Witness ==
    /\ split.called
    /\ split.timespan = "decade"
    /\ split.high_volatility
    /\ split.result.status = "ValueError"

\* the same call with the other value of reverse
SplitOtherOrder ==
    split_date_range(split.start, split.end, split.timespan,
                     split.high_volatility, ~split.reverse)

\* C11: for the same start, end, timespan and high_volatility the call with
\* reverse = True ends as the call with reverse = False does and returns the
\* reverse of its list; the list of reverse = False is chronologically
\* ascending, the list of reverse = True newest first.
C11_ReverseFlagReversesList ==
    split.called =>
        /\ SplitOtherOrder.status = split.result.status
        /\ split.result.status = "ok" =>
              /\ SplitChunks = Reverse(SplitOtherOrder.chunks)
              /\ \A i \in 1..(Len(SplitChunks) - 1) :
                    IF split.reverse
                    THEN WStart(SplitChunks[i]) > WStart(SplitChunks[i + 1])
                    ELSE WStart(SplitChunks[i]) < WStart(SplitChunks[i + 1])

\* a call with reverse = True that returned three windows
C11_Witness ==
    /\ split.called
    /\ split.reverse
    /\ split.result.status = "ok"
    /\ Len(SplitChunks) = 3
    /\ WStart(SplitChunks[3]) = StartOf(split.start)
    /\ SplitOtherOrder.chunks[1] = SplitChunks[3]
    /\ SplitOtherOrder.chunks[1] # SplitChunks[1]

\* C27, as claimed: for every timespan of the table, both values of
\* high_volatility and every start <= end the call returns a list, and the
\* chunk duration by which the loop advances is strictly positive.
C27_SplitReturnsForEveryKey ==
    (/\ split.called
     /\ KnownTimespan(split.timespan)
     /\ SplitSpan >= 0)
    => /\ split.result.status = "ok"
       /\ ChunkDelta(split.timespan, split.high_volatility) > 0

(***************************************************************************)
(* Properties of the parallel mode of get_full_range_aggregates, checked   *)
(* under FetchSpec.                                                        *)
(***************************************************************************)
NumFutures == Len(futures)
Page(w) == futures[w].page

\* the futures in the order the loop reads them, and the page read in iteration k
Processed(k) == Page(NumFutures + 1 - k)

\* the locals of the loop after its first k iterations
After(k) == CollectLoop(futures, LoopStart, k)

TimestampsOf(candles) == [i \in 1..Len(candles) |-> candles[i].t]
Members(s) == {s[i] : i \in 1..Len(s)}

StrictlyIncreasing(ts) == \A i \in 1..(Len(ts) - 1) : ts[i] < ts[i + 1]
StrictlyDecreasing(ts) == \A i \in 1..(Len(ts) - 1) : ts[i] > ts[i + 1]

\* a page with data whose candles are strictly ascending with timestamps > 0
AscendingPositive(page) ==
    /\ ~page.fault
    /\ \A i \in 1..Len(page.results) : page.results[i].t > 0
    /\ StrictlyIncreasing(TimestampsOf(page.results))

\* a page without data: no 'results' key or an empty 'results' list
NoData(page) == ~page.fault /\ (~page.has_results \/ page.results = <<>>)

AllTimestamps ==
    UNION {Members(TimestampsOf(Page(w).results)) : w \in 1..NumFutures}

\* C1: when every page is strictly ascending in 't' with timestamps > 0, the
\* call returns a Series that is strictly increasing for sort = asc and
\* strictly decreasing for sort = desc, so no timestamp appears twice.
C1_AscendingPagesGiveMonotonicSeries ==
    (pc = "done" /\ \A w \in 1..NumFutures : AscendingPositive(Page(w)))
    => /\ ret.status = "ok"
       /\ sort_order = "asc" => StrictlyIncreasing(TimestampsOf(ret.value))
       /\ sort_order = "desc" => StrictlyDecreasing(TimestampsOf(ret.value))

\* two windows share the boundary timestamp 2, which is returned once
C1_Witness ==
    /\ pc = "done"
    /\ NumFutures = 2
    /\ TimestampsOf(Page(1).results) = <<2, 3>>
    /\ TimestampsOf(Page(2).results) = <<1, 2>>
    /\ sort_order = "desc"
    /\ ret.status = "ok"
    /\ TimestampsOf(ret.value) = <<3, 2, 1>>

\* C2, as claimed: for every windows list and every page content, pages that
\* are unsorted or repeat a timestamp included, the ascending output has
\* strictly increasing timestamps.
C2_AnyPagesGiveIncreasingSeries ==
    (pc = "done" /\ ret.status = "ok" /\ sort_order = "asc")
    => StrictlyIncreasing(TimestampsOf(ret.value))

\* every page holds an ascending batch, and each batch starts at the timestamp
\* the batch of the previous window in the given order ends at
ChainedInListOrder ==
    /\ \A w \in 1..NumFutures : AscendingPositive(Page(w)) /\ Page(w).results # <<>>
    /\ \A w \in 1..(NumFutures - 1) :
           Page(w).results[Len(Page(w).results)].t = Page(w + 1).results[1].t

ChainedNewestFirst ==
    /\ \A w \in 1..NumFutures : AscendingPositive(Page(w)) /\ Page(w).results # <<>>
    /\ \A w \in 1..(NumFutures - 1) :
           Page(w + 1).results[Len(Page(w + 1).results)].t = Page(w).results[1].t

\* C3, as claimed: ascending batches returned in list order (windows[0], then
\* windows[1]) that overlap only at the boundary give the ascending union of
\* all records, the boundary once.
C3_ListOrderGivesUnion ==
    (pc = "done" /\ sort_order = "asc" /\ ChainedInListOrder)
    => /\ ret.status = "ok"
       /\ TimestampsOf(ret.value) = Ascending(AllTimestamps)

\* C3, amended: the same for batches in reverse list order, the last window of
\* the list holding the oldest batch.
C3_NewestFirstGivesUnion ==
    (pc = "done" /\ sort_order = "asc" /\ ChainedNewestFirst)
    => /\ ret.status = "ok"
       /\ TimestampsOf(ret.value) = Ascending(AllTimestamps)

\* windows[0] returned [2, 3] and windows[1] returned [1, 2]: the call gave [1, 2, 3]
C3_Witness ==
    /\ pc = "done"
    /\ sort_order = "asc"
    /\ NumFutures = 2
    /\ ChainedNewestFirst
    /\ TimestampsOf(Page(1).results) = <<2, 3>>
    /\ TimestampsOf(Page(2).results) = <<1, 2>>
    /\ TimestampsOf(ret.value) = <<1, 2, 3>>

\* C4, as claimed: in a call that returns, every window with data contributes
\* all of its records whose timestamps are not yet in the output.
C4_AbsentTimestampsAreKept ==
    (pc = "done" /\ ret.status = "ok")
    => \A k \in 1..NumFutures :
           ~NoData(Processed(k)) =>
               \A i \in 1..Len(Processed(k).results) :
                   LET candle == Processed(k).results[i]
                   IN  candle.t \notin Members(TimestampsOf(After(k - 1).final_results))
                           => candle \in Members(After(k).final_results)

\* the number of candles of a list above a mark
CountAbove(candles, mark) == Cardinality({i \in 1..Len(candles) : candles[i].t > mark})

\* C4, amended: in a call that returns, every window with data contributes, by
\* appending them to the output, exactly its records whose timestamps are
\* greater than H, the timestamp of the last record of the output (0 while the
\* output is empty).
C4_RecordsAboveMarkAreKept ==
    (pc = "done" /\ ret.status = "ok")
    => \A k \in 1..NumFutures :
           ~NoData(Processed(k)) =>
               LET before == After(k - 1).final_results
                   after == After(k).final_results
                   H == IF before = <<>> THEN 0 ELSE before[Len(before)].t
                   data == Processed(k).results
               IN  /\ After(k - 1).dupe_handler = H
                   /\ SubSeq(after, 1, Len(before)) = before
                   /\ Len(after) = Len(before) + CountAbove(data, H)
                   /\ \A i \in 1..Len(data) :
                          data[i].t > H
                              <=> data[i] \in Members(SubSeq(after, Len(before) + 1, Len(after)))

\* a window's records were dropped although their timestamps are not in the output
C4_Witness ==
    /\ pc = "done"
    /\ ret.status = "ok"
    /\ NumFutures = 2
    /\ TimestampsOf(Page(2).results) = <<2, 3>>
    /\ TimestampsOf(Page(1).results) = <<1, 3>>
    /\ TimestampsOf(ret.value) = <<2, 3>>

\* the futures whose page holds data
WithData == SelectSeq(futures, LAMBDA f : ~NoData(f.page))

\* C5: a page without the 'results' key or with an empty 'results' list,
\* whatever its status, leaves the output and H as they are and the loop goes
\* on to the next future; the call returns what it returns without the
\* windows of such pages.
C5_PagesWithoutDataAreSkipped ==
    pc = "done" =>
       /\ \A k \in 1..NumFutures :
              (After(k - 1).raised = "none" /\ NoData(Processed(k)))
              => /\ After(k).final_results = After(k - 1).final_results
                 /\ After(k).dupe_handler = After(k - 1).dupe_handler
                 /\ After(k).raised = "none"
                 /\ After(k).idx = k + 1
       /\ (\A w \in 1..NumFutures : ~Page(w).fault)
              => ret = Returned(CollectLoop(WithData, LoopStart, Len(WithData)), sort_order)
       /\ (\A w \in 1..NumFutures : NoData(Page(w)))
              => ret = [status |-> "ok", value |-> <<>>]

\* a page without 'results' and with status ERROR was skipped, with a
\* warning, and the records of the other window were merged
C5_Witness ==
    /\ pc = "done"
    /\ NumFutures = 2
    /\ ~Page(1).has_results
    /\ Page(1).status = "ERROR"
    /\ TimestampsOf(Page(2).results) = <<1, 2>>
    /\ ret.status = "ok"
    /\ TimestampsOf(ret.value) = <<1, 2>>
    /\ log = <<"WARN">>

\* what the call returns for the same futures and the other sort order
OtherSortReturn ==
    Returned(After(NumFutures), IF sort_order = "asc" THEN "desc" ELSE "asc")

\* C20: every window is requested with sort = asc whatever the sort order of
\* the call, the list is built in the same way for both orders and reversed
\* for a descending sort only when it is returned: for the same windows and
\* pages the result of sort = desc is the reverse of the result of sort = asc.
C20_DescendingIsReversedAscending ==
    pc = "done" =>
       /\ \A w \in 1..NumFutures : futures[w].sort = "asc"
       /\ ret.status = "ok" =>
             /\ final_results = After(NumFutures).final_results
             /\ sort_order = "asc" => ret.value = final_results
             /\ sort_order = "desc" => ret.value = Reverse(final_results)
             /\ OtherSortReturn.status = "ok"
             /\ ret.value = Reverse(OtherSortReturn.value)

\* a descending call whose list was built as [1, 2, 3] and returned as [3, 2, 1]
C20_Witness ==
    /\ pc = "done"
    /\ sort_order = "desc"
    /\ NumFutures = 2
    /\ ret.status = "ok"
    /\ TimestampsOf(final_results) = <<1, 2, 3>>
    /\ TimestampsOf(ret.value) = <<3, 2, 1>>
    /\ TimestampsOf(OtherSortReturn.value) = <<1, 2, 3>>

Max(a, b) == IF a > b THEN a ELSE b

\* the greatest timestamp of a non-empty list of candles
RECURSIVE Greatest(_)
Greatest(candles) ==
    IF Len(candles) = 1 THEN candles[1].t
    ELSE Max(candles[1].t, Greatest(Tail(candles)))

\* C28, as claimed: after every page whose records were processed the mark
\* dupe_handler is the greatest timestamp of the output so far, whatever the
\* order of the records inside a page, and so it never decreases.
C28_MarkIsGreatestTimestamp ==
    pc = "done" =>
       \A k \in 1..NumFutures :
          (/\ After(k).raised = "none"
           /\ After(k).idx = k + 1
           /\ ~NoData(Processed(k)))
          => /\ After(k).dupe_handler = Greatest(After(k).final_results)
             /\ After(k).dupe_handler >= After(k - 1).dupe_handler

\* C22, as claimed: when the fetch of any one window raised, the call raises
\* that fault and returns no list, whatever the other windows returned.
C22_FaultOfAnyWindowPropagates ==
    (pc = "done" /\ \E w \in 1..NumFutures : Page(w).fault)
    => ret = [status |-> "fault", value |-> <<>>]

\* C36, as claimed: a page with data none of whose records is above the mark
\* leaves the output and the mark as they are and the loop goes on to the next
\* future, also when it is the first page read and the output is still empty.
C36_StalePageLeavesOutput ==
    pc = "done" =>
       \A k \in 1..NumFutures :
          (/\ After(k - 1).raised = "none"
           /\ After(k - 1).idx = k
           /\ ~Processed(k).fault
           /\ ~NoData(Processed(k))
           /\ CountAbove(Processed(k).results, After(k - 1).dupe_handler) = 0)
          => /\ After(k).final_results = After(k - 1).final_results
             /\ After(k).dupe_handler = After(k - 1).dupe_handler
             /\ After(k).raised = "none"
             /\ After(k).idx = k + 1

(***************************************************************************)
(* Properties of get_all_pages and _paginate, checked under PageSpec.      *)
(***************************************************************************)
ChainLength == Len(walk.chain)

\* the cursor of a page of the chain for the direction of the call
Followed(i) ==
    IF walk.direction = "next" THEN walk.chain[i].next_url
    ELSE walk.chain[i].previous_url

\* N pages whose cursors lead from each page to the next, the last without one
LinearChain ==
    /\ ChainLength >= 1
    /\ \A i \in 1..(ChainLength - 1) : Followed(i) = i + 1
    /\ Followed(ChainLength) = Absent

\* every page request is answered by a response the client takes for a page:
\* with the sync client, none with an HTTP error status
PagesAnswered == walk.async \/ \A i \in 2..ChainLength : walk.chain[i].ok

\* the pages at positions a .. b of the chain, as a list holds them
PagesFromTo(a, b, raw) ==
    [i \in 1..(b - a + 1) |-> [page |-> a + i - 1, raw |-> raw]]

Min(a, b) == IF a < b THEN a ELSE b

C14_InitialPageCountsInBudget ==
    (walk.called = "_paginate" /\ ~walk.merge_all_pages
        /\ LinearChain /\ PagesAnswered)
    => /\ (walk.max_pages.int /\ walk.max_pages.n >= 1)
            => /\ walk.result.status = "ok"
               /\ Len(walk.result.value) = Min(walk.max_pages.n, ChainLength)
               /\ Len(walk.result.requests) = Min(walk.max_pages.n, ChainLength) - 1
       /\ walk.max_pages = NoCap
            => /\ walk.result.status = "ok"
               /\ Len(walk.result.value) = ChainLength

\* the pages a _paginate call collected: the initial page and every page
\* request that was answered by a response the client takes for a page
Collected ==
    <<1>> \o SelectSeq(walk.result.requests,
                       LAMBDA i : walk.async \/ walk.chain[i].ok)

\* no cursor the walk reads is malformed
NoMalformedCursor == \A i \in 1..ChainLength : Followed(i) # Malformed

\* C15: when _paginate runs with merge_all_pages = True and a collected page,
\* the initial one or a followed one, has no 'results' key, the call raises
\* nothing and returns the list of all collected pages, the initial page
\* first, in chain order, not a list of records.
C15_MissingResultsGivesPages ==
    (walk.called = "_paginate" /\ walk.merge_all_pages
        /\ walk.result.status # "running" /\ NoMalformedCursor
        /\ \E i \in 1..Len(Collected) : ~walk.chain[Collected[i]].has_results)
    => /\ walk.result.status = "ok"
       /\ walk.result.kind = "pages"
       /\ walk.result.value = [i \in 1..Len(Collected) |-> Decoded(Collected[i])]

\* the third page of a chain of three has no 'results'; the first two have
C15_Witness ==
    /\ walk.called = "_paginate"
    /\ walk.merge_all_pages
    /\ LinearChain
    /\ ChainLength = 3
    /\ walk.chain[1].has_results
    /\ walk.chain[2].has_results
    /\ ~walk.chain[3].has_results
    /\ walk.result.kind = "pages"
    /\ walk.result.value = <<Decoded(1), Decoded(2), Decoded(3)>>

\* the number of records of the first n collected pages
RECURSIVE RecordsBefore(_)
RecordsBefore(n) ==
    IF n = 0 THEN 0
    ELSE RecordsBefore(n - 1) + Len(walk.chain[Collected[n]].results)

\* C16: when _paginate runs with merge_all_pages = True and every collected
\* page has a 'results' key, it returns the records of the initial page
\* followed by the records of each followed page in chain order: as many
\* records as the pages hold together, each page's records in their order.
C16_MergeConcatenatesRecords ==
    (walk.called = "_paginate" /\ walk.merge_all_pages
        /\ walk.result.status = "ok"
        /\ \A i \in 1..Len(Collected) : walk.chain[Collected[i]].has_results)
    => /\ walk.result.kind = "records"
       /\ Len(walk.result.value) = RecordsBefore(Len(Collected))
       /\ \A i \in 1..Len(Collected) :
             \A k \in 1..Len(walk.chain[Collected[i]].results) :
                walk.result.value[RecordsBefore(i - 1) + k]
                    = walk.chain[Collected[i]].results[k]

\* pages of two, one and two records merged into five
C16_Witness ==
    /\ walk.called = "_paginate"
    /\ walk.merge_all_pages
    /\ walk.result.kind = "records"
    /\ walk.result.value
          = <<Record(1, 1), Record(1, 2), Record(2, 1), Record(3, 1), Record(3, 2)>>

\* the walk came back to a page it had already been on
Revisits ==
    \E i, j \in 1..Len(walk.result.requests) :
       i < j /\ walk.result.requests[i] = walk.result.requests[j]

\* the page the walk was on when it ended
LastCurrent ==
    IF walk.result.value = <<>> THEN 1
    ELSE walk.result.value[Len(walk.result.value)].page

\* C34: with max_pages = k >= 1 get_all_pages ends after at most k calls of
\* the function that follows the cursor, and so at most k page requests,
\* whatever the cursors are, a cursor that leads back to an earlier page
\* included; without a cap a walk that does not end is one that goes round
\* such a cycle, and a walk that reaches a page without the cursor ends.
C34_CapBoundsEveryWalk ==
    walk.called = "get_all_pages" =>
       /\ (walk.max_pages.int /\ walk.max_pages.n >= 1)
             => /\ walk.result.status # "running"
                /\ walk.result.calls <= walk.max_pages.n
                /\ Len(walk.result.requests) <= walk.max_pages.n
                /\ Len(walk.result.value) <= walk.max_pages.n
       /\ walk.result.status = "running"
             => /\ ~(walk.max_pages.int /\ walk.max_pages.n >= 1)
                /\ Revisits
                /\ \A i \in 1..Len(walk.result.requests) :
                      Followed(walk.result.requests[i]) \in 1..ChainLength
       /\ (walk.result.status = "ok" /\ ~ReachedCap(walk.result.value, walk.max_pages)
              /\ PagesAnswered)
             => Followed(LastCurrent) = Absent

\* a chain of two pages whose second page leads back to the first, walked
\* with max_pages = 3: page 2, page 1 and page 2 again
C34_Witness ==
    /\ walk.called = "get_all_pages"
    /\ walk.max_pages = Cap(3)
    /\ ChainLength = 2
    /\ walk.result.status = "ok"
    /\ walk.result.requests = <<2, 1, 2>>
    /\ Len(walk.result.value) = 3

\* C35, as claimed: every page a page request returned is appended to the
\* list, a response with an HTTP error status included, and the walk ends
\* only on a missing cursor or on the cap.
C35_EveryReturnedPageIsCollected ==
    (walk.called = "get_all_pages" /\ walk.result.status = "ok")
    => /\ walk.result.value
             = [i \in 1..Len(walk.result.requests) |->
                   [page |-> walk.result.requests[i], raw |-> walk.raw]]
       /\ \/ ReachedCap(walk.result.value, walk.max_pages)
          \/ Followed(LastCurrent) = Absent

(***************************************************************************)
(* Properties of the sequential mode, checked under SeqSpec.               *)
(***************************************************************************)
\* the page received last, in the state after the step
LastPage == seq.pages[Len(seq.pages)]
LastPageNext == seq'.pages[Len(seq'.pages)]

\* a page that holds no record above the mark: no 'results', an empty list,
\* or records that are all at or below it
NothingAbove(page, mark) ==
    /\ ~page.fault
    /\ \A i \in 1..Len(page.results) : page.results[i].t <= mark

\* C17: a step of the sequential loop whose page holds no record above H
\* ends the call: no further request is made and the records accumulated so
\* far are returned; every step that does not end the call moves current_dt
\* strictly forward and keeps it below end_dt, and the single request of a
\* short range is followed by the return, so the call makes finitely many
\* requests whatever the pages hold.
C17_StepWithoutNewRecordsReturns ==
    [][/\ (pc = "sequential" /\ NothingAbove(LastPageNext, dupe_handler))
            => /\ pc' = "returned"
               /\ seq'.requests = seq.requests
               /\ final_results' = final_results
               /\ ret' = [status |-> "ok", value |-> final_results]
       /\ (pc = "sequential" /\ pc' = "sequential")
            => /\ seq'.current_dt > seq.current_dt
               /\ seq'.current_dt < seq.end_dt
               /\ Len(seq'.requests) = Len(seq.requests) + 1
       /\ pc = "sequential" => pc' \in {"sequential", "returned"}
       /\ pc = "single" => pc' = "returned" /\ seq'.requests = seq.requests
      ]_vars

\* the second page repeated records at or below H: the call returned the
\* records of the first page after two requests
C17_Witness ==
    /\ pc = "returned"
    /\ Len(seq.requests) = 2
    /\ Len(seq.pages) = 2
    /\ LastPage.results # <<>>
    /\ NothingAbove(LastPage, dupe_handler)
    /\ ret.status = "ok"
    /\ ret.value # <<>>
    /\ ret.value = final_results

\* C18, as claimed: the window of every request of a sequential call spans at
\* most one chunk of the timespan.
C18_RequestsSpanOneChunk ==
    (seq.called /\ KnownChunk(seq.timespan))
    => \A i \in 1..Len(seq.requests) :
          seq.requests[i].to - seq.requests[i].from <= TIME_FRAME_CHUNKS[seq.timespan]

\* the timestamp of the last record the i-th page added to final_results
LastAddedBy(i) ==
    LET js == {j \in 1..Len(final_results) : final_results[j].w = i}
    IN  final_results[CHOOSE j \in js : \A k \in js : k <= j].t

\* C18, amended: every request of a sequential call asks for the whole
\* remaining range (current_dt, end_dt) with the sort order of the call; the
\* first starts at the normalized start, each later one at the timestamp of
\* the last record the page before it added, which is later than the start
\* of the request before and earlier than end_dt; a range that fits one
\* request gets exactly one.
C18_RequestsSpanRemainingRange ==
    seq.called =>
       /\ \A i \in 1..Len(seq.requests) :
             /\ seq.requests[i].to = seq.end_dt
             /\ seq.requests[i].sort = sort_order
       /\ Len(seq.requests) >= 1 => seq.requests[1].from = seq.first_entry
       /\ \A i \in 2..Len(seq.requests) :
             /\ seq.requests[i].from = LastAddedBy(i - 1)
             /\ seq.requests[i].from > seq.requests[i - 1].from
             /\ seq.requests[i].from < seq.end_dt
       /\ pc = "single" => Len(seq.requests) = 1

\* three requests of a call for a range of one day and one hour chunks, each
\* up to the end of the range
C18_Witness ==
    /\ seq.called
    /\ pc = "sequential"
    /\ seq.timespan = "second"
    /\ seq.end_dt = MinutesPerDay
    /\ Len(seq.requests) = 3
    /\ seq.requests[2].from = 1
    /\ seq.requests[3].from = 2
    /\ seq.requests[3].to = MinutesPerDay

\* every page received is strictly sorted in the order requested of it
PagesSortedAsRequested ==
    \A i \in 1..Len(seq.pages) :
       /\ ~seq.pages[i].fault
       /\ sort_order = "asc" => StrictlyIncreasing(TimestampsOf(seq.pages[i].results))
       /\ sort_order = "desc" => StrictlyDecreasing(TimestampsOf(seq.pages[i].results))

\* C19, as claimed: when every page is sorted in the order requested, the
\* Series a sequential call returns is strictly increasing for sort = asc and
\* strictly decreasing for sort = desc, for short and for long ranges.
C19_SequentialSeriesMonotonic ==
    (pc = "returned" /\ seq.called /\ ret.status = "ok" /\ PagesSortedAsRequested)
    => /\ sort_order = "asc" => StrictlyIncreasing(TimestampsOf(ret.value))
       /\ sort_order = "desc" => StrictlyDecreasing(TimestampsOf(ret.value))

(***************************************************************************)
(* Properties of get_full_range_aggregates in both modes, checked under    *)
(* EngineSpec.                                                             *)
(***************************************************************************)
\* a page with another value of its 'status' field; an exception has none
WithStatus(page, status) == IF page.fault THEN page ELSE [page EXCEPT !.status = status]

\* the futures with the status of every page replaced
Relabelled(futs, status) ==
    [w \in 1..Len(futs) |-> [futs[w] EXCEPT !.page = WithStatus(futs[w].page, status)]]

\* two logs that differ at most in INFO against WARN
SameButLevel(l1, l2) ==
    /\ Len(l1) = Len(l2)
    /\ \A i \in 1..Len(l1) : l1[i] = l2[i] \/ {l1[i], l2[i]} \subseteq {"INFO", "WARN"}

\* the loop starts with the fault that gather raised (or that the first future
\* read raised), or with nothing raised
GatheredStart ==
    IF (\E w \in 1..NumFutures : Page(w).fault) /\ idx = 1 /\ ret.status = "fault"
    THEN [LoopStart EXCEPT !.raised = "fault"]
    ELSE LoopStart

\* two values of the locals of the loop that differ at most in the log level
SameLocals(st1, st2) ==
    /\ st1.final_results = st2.final_results
    /\ st1.dupe_handler = st2.dupe_handler
    /\ st1.idx = st2.idx
    /\ st1.raised = st2.raised
    /\ SameButLevel(st1.log, st2.log)

\* parallel mode: the requests are made before any page is read, and every
\* iteration of the loop of the call that just returned, taken again on its
\* page with any other status, leaves the same locals
ParallelStatusBlind ==
    pc = "done" =>
       /\ SameLocals(CollectLoop(futures, GatheredStart, NumFutures),
                     [idx |-> idx, final_results |-> final_results,
                      dupe_handler |-> dupe_handler, log |-> log,
                      raised |-> IF ret.status = "ok" THEN "none" ELSE ret.status])
       /\ \A k \in 1..NumFutures :
             LET before == CollectLoop(futures, GatheredStart, k - 1)
             IN  (before.raised = "none" /\ before.idx = k) =>
                    \A status \in Statuses :
                       SameLocals(CollectStep(Relabelled(futures, status), before),
                                  CollectStep(futures, before))

\* sequential mode, the only request of a short range: the step just taken,
\* taken again on the page with any other status
SingleStatusBlind ==
    pc = "single" /\ pc' = "returned" =>
       \A status \in Statuses :
          LET st == SingleStep(log, WithStatus(seq'.pages[Len(seq'.pages)], status))
          IN  /\ st.ret = ret'
              /\ SameButLevel(st.log, log')

\* sequential mode, a request of the loop: the step just taken, taken again on
\* the page with any other status, leaves the same locals, and so the same
\* next request or the same return
StepStatusBlind ==
    pc = "sequential" /\ pc' \in {"sequential", "returned"} =>
       \A status \in Statuses :
          LET st == SequentialStep([current_dt |-> seq.current_dt,
                                    dupe_handler |-> dupe_handler,
                                    final_results |-> final_results,
                                    log |-> log, raised |-> "none", stop |-> FALSE],
                                   WithStatus(seq'.pages[Len(seq'.pages)], status))
          IN  /\ st.final_results = final_results'
              /\ st.dupe_handler = dupe_handler'
              /\ st.current_dt = seq'.current_dt
              /\ SameButLevel(st.log, log')
              /\ st.raised # "none" <=> ret'.status \notin {"ok", "none"}
              /\ (st.raised # "none" \/ st.stop \/ st.current_dt >= seq.end_dt)
                    <=> pc' = "returned"

\* C23: the 'status' of a page chooses between the INFO and the WARN line of
\* a page without the 'results' key and nothing else: with other statuses on
\* the same pages a call in either mode makes the same requests, returns the
\* same list or raises the same exception, and prints as many lines.
C23_StatusOnlyChoosesLogLevel ==
    []ParallelStatusBlind /\ [][SingleStatusBlind /\ StepStatusBlind]_vars

\* a parallel call that printed the WARN line of a page with status ERROR
\* and returned the data of the other window
C23_Witness ==
    /\ pc = "done"
    /\ NumFutures = 2
    /\ log = <<"WARN">>
    /\ ret.status = "ok"
    /\ TimestampsOf(ret.value) = <<1, 2>>

(***************************************************************************)
(* Properties of the worker pool of the parallel mode, checked under       *)
(* PoolSpec.                                                               *)
(***************************************************************************)
\* the fetches in flight
InFlight == Cardinality(Running)

\* C21: with a thread pool of max_concurrent_workers threads, or coroutines
\* behind a semaphore of that value, the number of window fetches in flight
\* never exceeds max_concurrent_workers, for any number of windows and any
\* order in which the fetches start and finish.
C21_InFlightNeverExceedsMaxWorkers ==
    pool.called => InFlight <= pool.max_workers

\* one worker, two windows: the first fetch is in flight and the second waits
C21_Witness ==
    /\ pool.called
    /\ pool.max_workers = 1
    /\ NumWindows = 2
    /\ pool.task = <<"running", "queued">>

\* the coordinator has read a result: an iteration of the loop has run
Consumed == pool.folded # <<>> \/ final_results # <<>> \/ log # <<>> \/ idx > 1

\* C29: the loop over the results starts only when every window has been
\* submitted (and every fetch is done), and it reads the windows in the
\* reverse of the order of submission, last-submitted first, whatever the
\* order in which the fetches completed.
C29_FoldsInReverseSubmissionOrder ==
    pool.called =>
       /\ Consumed => (Len(futures) = NumWindows /\ AllDone)
       /\ \A k \in 1..Len(pool.folded) : pool.folded[k] = NumWindows + 1 - k
       /\ (pc = "pooled" /\ ret.status = "ok") => Len(pool.folded) = NumWindows

\* two fetches that completed in the order of submission, read last first
C29_Witness ==
    /\ pc = "pooled"
    /\ ret.status = "ok"
    /\ NumWindows = 2
    /\ pool.completed = <<1, 2>>
    /\ pool.folded = <<2, 1>>
    /\ TimestampsOf(final_results) = <<2, 3>>

\* the futures of the call, as its windows and their pages give them
SubmittedFutures ==
    [w \in 1..NumWindows |-> Submit(TimeChunks(NumWindows)[w], pool.pages[w])]

\* what the call returns, as a function of its windows, pages and sort order
\* alone: the loop run on the futures in submission order (after the fault
\* that gather raises, if a coroutine raised)
ExpectedReturn ==
    LET start == IF pool.async /\ \E w \in 1..NumWindows : pool.pages[w].fault
                 THEN [LoopStart EXCEPT !.raised = "fault"]
                 ELSE LoopStart
    IN  Returned(CollectLoop(SubmittedFutures, start, NumWindows), sort_order)

\* the call returned what its windows and pages determine, whatever the
\* fetches' order of completion
ReturnIsDetermined == (pool.called /\ pc = "pooled") => ret = ExpectedReturn

\* only the coordinator, in the loop after the wait, writes the output list
\* and the mark (Forget clears them for the next call)
OnlyCoordinatorWrites ==
    (final_results' # final_results \/ dupe_handler' # dupe_handler)
    => \/ pc = "collecting" /\ pool'.task = pool.task /\ pool'.completed = pool.completed
       \/ pc = "pooled" /\ pc' = "idle"

\* C30: the workers write neither final_results nor dupe_handler, which only
\* the coordinator's loop changes after the wait, so for the same windows and
\* pages the call returns the same list for every interleaving and every
\* order of completion of the fetches.
C30_WorkersShareNoState ==
    []ReturnIsDetermined /\ [][OnlyCoordinatorWrites]_vars

\* two windows whose second fetch completed first, and the list returned is
\* the one of the pages in submission order
C30_Witness ==
    /\ pc = "pooled"
    /\ NumWindows = 2
    /\ pool.max_workers = 2
    /\ pool.completed = <<2, 1>>
    /\ TimestampsOf(pool.pages[1].results) = <<2, 3>>
    /\ TimestampsOf(pool.pages[2].results) = <<1, 2>>
    /\ TimestampsOf(ret.value) = <<1, 2, 3>>

(***************************************************************************)
(* Properties of the calls over a range against an upstream, checked under *)
(* RangeSpec.                                                              *)
(***************************************************************************)
\* the timestamps of the upstream's records inside the range, ascending
InRange ==
    Ascending({t \in upstream.records :
                  StartOf(upstream.start) <= t /\ t <= EndOf(upstream.end)})

\* the range is longer than one chunk for the sequential mode
LongRange ==
    ~FitsOneRequest(StartOf(upstream.start), EndOf(upstream.end), upstream.timespan)

\* C31: with the chunks of split_date_range in its default order and an
\* upstream that answers every window with all its records of that window,
\* ascending, the parallel mode returns exactly the upstream's records with
\* start <= t <= end, each once, ascending (and that list reversed for a
\* descending sort).
C31_ParallelReturnsTheRange ==
    (upstream.called /\ upstream.parallel)
    => /\ ret.status = "ok"
       /\ TimestampsOf(ret.value)
             = IF sort_order = "asc" THEN InRange ELSE Reverse(InRange)

\* a day and an hour in 25 hourly windows: the record before the start is
\* left out, the record on the border of the first two windows comes once
C31_Witness ==
    /\ upstream.called
    /\ upstream.parallel
    /\ upstream.start = Naive(MinutesPerDay)
    /\ Len(futures) = 25
    /\ sort_order = "asc"
    /\ upstream.records = {MinutesPerDay - 1, MinutesPerDay, MinutesPerDay + 60,
                           2 * MinutesPerDay + 60}
    /\ TimestampsOf(ret.value)
          = <<MinutesPerDay, MinutesPerDay + 60, 2 * MinutesPerDay + 60>>

\* C32, as claimed: over a range longer than one chunk, with sort = asc and
\* an upstream that answers with the earliest records of the window, at most
\* L >= 2 of them, the sequential mode returns exactly the upstream's records
\* with start <= t <= end, each once, ascending, the record at the start of
\* the range included.
C32_SequentialReturnsTheRange ==
    (upstream.called /\ ~upstream.parallel /\ sort_order = "asc" /\ LongRange)
    => /\ ret.status = "ok"
       /\ TimestampsOf(ret.value) = InRange

\* what the other mode returns for the same range, sort order and upstream
OtherMode ==
    IF upstream.parallel
    THEN SequentialRun(upstream.start, upstream.end, upstream.timespan, sort_order,
                       upstream.records, 0).ret
    ELSE ParallelRun(upstream.start, upstream.end, upstream.timespan, sort_order,
                     upstream.records).ret

\* C33, as claimed: for the same range, sort order and upstream that answers
\* with all the records of a window, the parallel mode over the chunks of
\* split_date_range and the sequential mode over (start, end) return the same
\* list, for both sort orders and for short and long ranges.
C33_ModesReturnTheSame ==
    (upstream.called /\ upstream.limit = 0)
    => /\ ret.status = OtherMode.status
       /\ TimestampsOf(ret.value) = TimestampsOf(OtherMode.value)

(***************************************************************************)
(* Properties of normalize_datetime, checked under NormSpec.               *)
(***************************************************************************)
\* a calendar date or a 'YYYY-MM-DD' string
DateOnly(dt) == dt.kind \in {"date", "str"}

\* the instant, in minutes since the epoch, of a wall-clock time of day on a
\* day, in a timezone of the given utcoffset
InstantOf(day, minutes, offset) == day * 24 * 60 + minutes - offset

\* the same call with the other _dir
OtherDir ==
    normalize_datetime(norm.dt, norm.output_type,
                       IF norm.dir = "start" THEN "end" ELSE "start", norm.tz)

\* C24: for a date or a 'YYYY-MM-DD' string and output_type = ts, _dir = start
\* gives 00:00 of that day and _dir = end gives 23:59 of that day, both in the
\* timezone tz (UTC by default), so the two are 23 h 59 min apart.
C24_DateBoundariesAreMidnightAnd2359 ==
    (/\ norm.called
     /\ DateOnly(norm.dt)
     /\ norm.output_type = "ts"
     /\ norm.dir \in {"start", "end"})
    => /\ norm.result.status = "ok"
       /\ norm.result.value.kind = "int"
       /\ norm.dir = "start" =>
             /\ norm.result.value.v = InstantOf(norm.dt.v, 0, norm.tz)
             /\ OtherDir.v - norm.result.value.v = 23 * 60 + 59
       /\ norm.dir = "end" =>
             /\ norm.result.value.v = InstantOf(norm.dt.v, 23 * 60 + 59, norm.tz)
             /\ norm.result.value.v - OtherDir.v = 23 * 60 + 59

\* the string of day 19358 (2023-01-01), _dir = end and a timezone 5 h 30 min
\* east of UTC: 18:29 UTC of that day
C24_Witness ==
    /\ norm.called
    /\ norm.dt = Str(19358)
    /\ norm.output_type = "ts"
    /\ norm.dir = "end"
    /\ norm.tz = 330
    /\ norm.result.value = Ts(19358 * 24 * 60 + 18 * 60 + 29)

KnownOutputTypes == {"ts", "nts", "str", "datetime", "date"}

\* C25, as claimed: a value of none of the accepted kinds, or an output_type
\* the function does not know, makes the call fail with an error; it returns
\* nothing.
C25_UnsupportedInputRaises ==
    (/\ norm.called
     /\ norm.dt = None \/ norm.output_type \notin KnownOutputTypes)
    => norm.result.status = "UnsupportedInputKind"

\* C37, as claimed: for every date, _dir start or end and timezone, the
\* timestamp of the date converted back to a date with the same tz is the date.
C37_DatesRoundTripThroughTimestamps ==
    (/\ norm.called
     /\ norm.dt.kind = "date"
     /\ norm.output_type = "ts"
     /\ norm.dir \in {"start", "end"})
    => norm.back = norm.dt

(***************************************************************************)
(* Properties of the TD Ameritrade option symbols, checked under           *)
(* OptionSpec.                                                             *)
(***************************************************************************)
LettersOnly(s) == \A i \in 1..Len(s) : IsAlpha(s[i])

\* C26, as claimed: for an underlying of letters, any expiry, call or put,
\* any strike and both formats, the symbol built parses without error to the
\* same underlying, expiry, call or put and strike.
C26_TdaSymbolsRoundTrip ==
    (opt.called /\ LettersOnly(opt.underlying_symbol))
    => /\ opt.parsed.status = "ok"
       /\ opt.parsed.underlying_symbol = opt.underlying_symbol
       /\ opt.parsed.expiry = opt.expiry
       /\ opt.parsed.call_or_put = CallOrPut(opt.call_or_put)
       /\ opt.parsed.strike_price = opt.strike_price
====
